---- MODULE Spec2Model ----
(***************************************************************************)
(* Model of src/main.py: the caption-template engine                       *)
(* (process_dynamic_caption and the handlers that set, reset and delete    *)
(* its per-owner state), the audio-track negotiator (PENDING_AUDIO_ORDERS, *)
(* text_handler, cancel_task_cb), the task registry (TASKS) and the        *)
(* delivery pipeline (process_file_and_upload, handle_audio_remux).        *)
(*                                                                         *)
(* Text is modelled as a sequence of tokens.  A caption template is a      *)
(* sequence of token records: plain text, a counter placeholder [N] /      *)
(* [(N)], a cycle placeholder [re (a, b)], or a bracketed fragment         *)
(* [TEXT (M)] that the conditional regex of the source matches.  Digits    *)
(* are the characters "0".."9", so that int() and the f-string format are  *)
(* real conversions.                                                       *)
(***************************************************************************)
EXTENDS Integers, Sequences, FiniteSets, TLC

VARIABLES
    USER_CAPTIONS,          \* uid -> saved template (<<>>: no caption saved)
    USER_COUNTERS,          \* uid -> [uploads, dynamic_counters, re_options_count]
    SET_CAPTION_REQUEST,    \* set of uids whose next text is the new template
    last_caption,           \* uid -> the value the last process_dynamic_caption call returned
    MKV_AUDIO_CHANGE_MODE,  \* set of uids in track-change mode
    PENDING_AUDIO_ORDERS,   \* prompt message id -> [uid, path, tracks]
    TASKS,                  \* uid -> list of registered cancel events
    events_set,             \* the asyncio.Event objects whose flag is set
    files,                  \* the files that exist in TMP
    op,                     \* operation slot -> the coroutine's local state
    asked,                  \* operations that were running when the owner pressed Cancel
    age,                    \* path -> hours since the file was last written (st_mtime)
    due,                    \* periodic_cleanup has finished its sleep
    swept,                  \* paths periodic_cleanup has unlinked
    conv,                   \* the convert_to_mkv call in progress
    now,                    \* int(datetime.now().timestamp()), the clock second
    names,                  \* slot -> the staging paths the operation has chosen
    ignored,                \* replied-to ids of texts no branch of text_handler took up
    EDIT_CAPTION_MODE,      \* set of uids in caption-only mode
    SUBSCRIBERS,            \* chat ids that sent /start
    SET_THUMB_REQUEST,      \* set of uids whose next photo is the new thumbnail
    USER_THUMBS,            \* set of uids with an entry; its value is TMP/thumb_<uid>.jpg
    USER_THUMB_TIME,        \* set of uids with a thumbnail-time entry
    thumb_jpg,              \* uid -> [exists, age]: the file TMP/thumb_<uid>.jpg
    said,                   \* the last reply of del_thumb_cmd
    CREATE_POST_MODE,       \* set of uids in Create Post mode
    POST_CREATION_STATE,    \* uid -> the post-creation record
    post_serial,            \* the number of post-creation records made so far
    dl,                     \* the download_stream call in progress
    raised                  \* <<slot, function>>: an exception left the function

capVars == <<USER_CAPTIONS, USER_COUNTERS, SET_CAPTION_REQUEST, last_caption>>

opVars == <<MKV_AUDIO_CHANGE_MODE, PENDING_AUDIO_ORDERS, TASKS, events_set, files, op, asked>>

opVarsButOp == <<MKV_AUDIO_CHANGE_MODE, PENDING_AUDIO_ORDERS, TASKS, events_set, files, asked>>

sweepVars == <<age, due, swept>>

convVars == <<conv>>

nameVars == <<now, names>>

histVars == <<ignored>>

modeVars == <<EDIT_CAPTION_MODE, SUBSCRIBERS>>

thumbVars == <<SET_THUMB_REQUEST, USER_THUMBS, USER_THUMB_TIME, thumb_jpg, said>>

postVars == <<CREATE_POST_MODE, POST_CREATION_STATE, post_serial>>

dlVars == <<dl>>

errVars == <<raised>>

\* the state of the mode, thumbnail, post and download handlers
extVars == <<modeVars, thumbVars, postVars, dlVars, errVars>>

\* the same without the thumbnail files, which the sweep ages and unlinks
extButFile == <<modeVars, SET_THUMB_REQUEST, USER_THUMBS, USER_THUMB_TIME, said,
                postVars, dlVars, errVars>>

\* what the caption and operation handlers never touch
auxVars == <<sweepVars, convVars, nameVars, histVars, extVars>>

vars == <<USER_CAPTIONS, USER_COUNTERS, SET_CAPTION_REQUEST, last_caption,
          MKV_AUDIO_CHANGE_MODE, PENDING_AUDIO_ORDERS, TASKS, events_set, files, op, asked,
          age, due, swept, conv, now, names, ignored,
          EDIT_CAPTION_MODE, SUBSCRIBERS, SET_THUMB_REQUEST, USER_THUMBS, USER_THUMB_TIME,
          thumb_jpg, said, CREATE_POST_MODE, POST_CREATION_STATE, post_serial, dl, raised>>

-----------------------------------------------------------------------------
(* Bounds *)

MaxTplLen == 3      \* tokens per caption template
MaxUploads == 6     \* expansions per counter state (caps USER_COUNTERS.uploads)
MaxOps == 2         \* operations (incoming files) in one behaviour
MaxReplyLen == 2    \* comma-separated tokens in a track-order reply
MaxSec == 1         \* clock seconds that pass while operations run
MaxPosts == 2       \* post-creation records made in one behaviour

-----------------------------------------------------------------------------
(* Users.  ADMIN_ID is the one allow-listed account. *)

ADMIN_ID == "admin"

Users == {"admin", "guest"}

is_admin(uid) == uid = ADMIN_ID

-----------------------------------------------------------------------------
(* Characters, int() and the zero-padded format *)

DigitChars == <<"0", "1", "2", "3", "4", "5", "6", "7", "8", "9">>

Digits == {DigitChars[i] : i \in 1..10}

DigitVal(c) == (CHOOSE i \in 1..10 : DigitChars[i] = c) - 1

IsDigits(s) == Len(s) > 0 /\ \A i \in 1..Len(s) : s[i] \in Digits

RECURSIVE ParseDigits(_)
ParseDigits(s) ==
    IF s = <<>> THEN 0
    ELSE ParseDigits(SubSeq(s, 1, Len(s) - 1)) * 10 + DigitVal(s[Len(s)])

\* int(str): an optional sign, then decimal digits; anything else is a ValueError
PyIntOk(s) ==
    \/ IsDigits(s)
    \/ Len(s) > 1 /\ s[1] \in {"+", "-"} /\ IsDigits(Tail(s))

PyInt(s) ==
    IF s[1] = "-" THEN 0 - ParseDigits(Tail(s))
    ELSE IF s[1] = "+" THEN ParseDigits(Tail(s))
    ELSE ParseDigits(s)

RECURSIVE ToDigits(_)
ToDigits(v) ==
    IF v < 10 THEN <<DigitChars[v + 1]>>
    ELSE ToDigits(v \div 10) \o <<DigitChars[(v % 10) + 1]>>

RECURSIVE ZeroPad(_, _)
ZeroPad(s, w) == IF Len(s) >= w THEN s ELSE ZeroPad(<<"0">> \o s, w)

\* f"{value:0{width}d}" for value >= 0
FormatInt(value, width) == ZeroPad(ToDigits(value), width)

-----------------------------------------------------------------------------
(* Template tokens.  Every token is a record of the same shape:            *)
(*   k  kind: "lit" text, "ctr" [N] or [(N)], "cyc" [re (..)],             *)
(*      "cond" [TEXT (M)], "num" a rendered counter                        *)
(*   s  the text of a lit / the TEXT of a cond                             *)
(*   p  parentheses of a counter literal: "none" [01], "both" [(01)]       *)
(*   d  the digit characters of a counter                                  *)
(*   o  the comma-separated options of a cycle ("" is a blank option)      *)
(*   m  the characters between the parentheses of a cond                   *)
(*   c  TRUE iff a cond is written exactly "[TEXT (M)]": one space before  *)
(*      the parenthesis, no padding inside                                 *)

Tok(k, s, p, d, o, m, c) == [k |-> k, s |-> s, p |-> p, d |-> d, o |-> o, m |-> m, c |-> c]

Lit(s) == Tok("lit", s, "none", <<>>, <<>>, <<>>, TRUE)

Ctr(p, d) == Tok("ctr", "", p, d, <<>>, <<>>, TRUE)

Cyc(o) == Tok("cyc", "", "none", <<>>, o, <<>>, TRUE)

Cond(s, m, c) == Tok("cond", s, "none", <<>>, <<>>, m, c)

Num(p, d) == Tok("num", "", p, d, <<>>, <<>>, TRUE)

\* the tokens every template of the model is built from
BaseTokens ==
    { Lit("Episode"),
      Ctr("none", <<"0", "1">>),
      Ctr("both", <<"0", "9">>),
      Cyc(<<"480p", "720p">>),
      Cond("End", <<"0", "2">>, TRUE) }

\* rarer shapes, each tried alone and next to a counter or a cycle
ExtraTokens ==
    { Ctr("none", <<"9">>),
      Cyc(<<"HD", "", "SD", "4K">>),
      Cyc(<<"">>),
      Cond("End", <<"x">>, TRUE),
      Cond("End", <<"0", "2">>, FALSE),
      Cond("hi", <<"0">>, TRUE),
      Cond("hi", <<"1", "0">>, TRUE) }

SeqsUpTo(S, n) == UNION { [1..l -> S] : l \in 1..n }

Templates ==
    SeqsUpTo(BaseTokens, MaxTplLen)
    \cup { <<e>> : e \in ExtraTokens }
    \cup { <<b, e>> : b \in {Ctr("none", <<"0", "1">>), Cyc(<<"480p", "720p">>)},
                      e \in ExtraTokens }
    \cup { <<e, b>> : b \in {Ctr("none", <<"0", "1">>), Cyc(<<"480p", "720p">>)},
                      e \in ExtraTokens }

NoCaption == <<>>

-----------------------------------------------------------------------------
(* process_dynamic_caption *)

\* the state process_dynamic_caption creates for an owner that has none;
\* USER_COUNTERS.pop(uid) is modelled as a return to this value
FreshCounters == [uploads |-> 0, dynamic_counters |-> <<>>, re_options_count |-> 0]

CycleIdx(tpl) == { i \in 1..Len(tpl) : tpl[i].k = "cyc" }

HasCycle(tpl) == CycleIdx(tpl) # {}

\* re.search: the first cycle placeholder of the text
FirstCycle(tpl) == tpl[CHOOSE i \in CycleIdx(tpl) : \A j \in CycleIdx(tpl) : i <= j]

IsNonBlank(x) == x # ""

\* [opt.strip() for opt in options_str.split(',') if opt.strip()]
CycleOptions(tok) == SelectSeq(tok.o, IsNonBlank)

CycleStep_NoAdvance(re, options) ==
    IF options = <<>> THEN [re |-> re, repl |-> ""]
    ELSE LET r0 == IF re >= Len(options) THEN 0 ELSE re
         IN  [re |-> r0, repl |-> options[r0 + 1]]

\* the stored offset after the call, and the replacement of the placeholder
CycleStep(re, options) ==
    IF options = <<>> THEN [re |-> re, repl |-> ""]
    ELSE LET r0 == IF re >= Len(options) THEN 0 ELSE re
         IN  [re |-> r0 + 1, repl |-> options[r0 + 1]]

\* the match strings of re.findall, as keys of dynamic_counters
CounterKey(tok) == [p |-> tok.p, d |-> tok.d]

Matches(tpl) == { CounterKey(tpl[i]) : i \in { j \in 1..Len(tpl) : tpl[j].k = "ctr" } }

UpdateCounters_Reseed(dc, tpl) ==
    [key \in (DOMAIN dc) \cup Matches(tpl) |->
        IF key \in Matches(tpl)
        THEN [value |-> ParseDigits(key.d), has_paren |-> (key.p = "both")]
        ELSE dc[key]]

\* seed a placeholder that is not in the map, add 1 to one that is
UpdateCounters(dc, tpl) ==
    [key \in (DOMAIN dc) \cup Matches(tpl) |->
        IF key \in Matches(tpl)
        THEN IF key \in DOMAIN dc
             THEN [dc[key] EXCEPT !.value = @ + 1]
             ELSE [value |-> ParseDigits(key.d), has_paren |-> (key.p = "both")]
        ELSE dc[key]]

\* the mutant renders every counter without its parentheses
RenderCounter_NoParen(key, data) ==
    Num("none", FormatInt(data.value, Len(key.d)))

\* the text a counter placeholder is replaced by
RenderCounter(key, data) ==
    Num(IF data.has_paren THEN "both" ELSE "none", FormatInt(data.value, Len(key.d)))

MinOf(S) == CHOOSE x \in S : \A y \in S : x <= y

\* current_episode_num
EpisodeNum(dc) ==
    IF DOMAIN dc = {} THEN 0 ELSE MinOf({ dc[key].value : key \in DOMAIN dc })

CondReplace_OffByOne(tok, episode) ==
    IF ~PyIntOk(tok.m) THEN tok
    ELSE IF ~tok.c THEN tok
    ELSE IF episode + 1 = PyInt(tok.m) THEN Lit(tok.s)
    ELSE Lit("")

\* what one match of the conditional regex leaves in the text
CondReplace(tok, episode) ==
    IF ~PyIntOk(tok.m) THEN tok            \* int() raises ValueError: continue
    ELSE IF ~tok.c THEN tok                \* the rebuilt placeholder is not in the text
    ELSE IF episode = PyInt(tok.m) THEN Lit(tok.s)
    ELSE Lit("")

RenderToken(tok, repl, dc) ==
    IF tok.k = "cyc" THEN Lit(repl)
    ELSE IF tok.k = "ctr" /\ CounterKey(tok) \in DOMAIN dc
         THEN RenderCounter(CounterKey(tok), dc[CounterKey(tok)])
    ELSE IF tok.k = "cond" THEN CondReplace(tok, EpisodeNum(dc))
    ELSE tok

\* the new owner state and the returned text
process_dynamic_caption(cs, tpl) ==
    LET cyc == IF HasCycle(tpl)
               THEN CycleStep(cs.re_options_count, CycleOptions(FirstCycle(tpl)))
               ELSE [re |-> cs.re_options_count, repl |-> ""]
        dc  == UpdateCounters(cs.dynamic_counters, tpl)
    IN  [state |-> [uploads |-> cs.uploads + 1,
                    dynamic_counters |-> dc,
                    re_options_count |-> cyc.re],
         text  |-> [i \in 1..Len(tpl) |-> RenderToken(tpl[i], cyc.repl, dc)]]

-----------------------------------------------------------------------------
(* Handlers of the caption state *)

\* /set_caption
set_caption_prompt(uid) ==
    /\ is_admin(uid)
    /\ SET_CAPTION_REQUEST' = SET_CAPTION_REQUEST \cup {uid}
    /\ USER_COUNTERS' = [USER_COUNTERS EXCEPT ![uid] = FreshCounters]
    /\ last_caption' = [last_caption EXCEPT ![uid] = <<>>]
    /\ UNCHANGED USER_CAPTIONS

\* text_handler, the branch of a pending set-caption request
text_handler_set_caption(uid, text) ==
    /\ is_admin(uid)
    /\ uid \in SET_CAPTION_REQUEST
    /\ SET_CAPTION_REQUEST' = SET_CAPTION_REQUEST \ {uid}
    /\ USER_CAPTIONS' = [USER_CAPTIONS EXCEPT ![uid] = text]
    /\ USER_COUNTERS' = [USER_COUNTERS EXCEPT ![uid] = FreshCounters]
    /\ last_caption' = [last_caption EXCEPT ![uid] = <<>>]

\* the "Delete Caption" button
delete_caption_cb(uid) ==
    /\ is_admin(uid)
    /\ USER_CAPTIONS[uid] # NoCaption
    /\ USER_CAPTIONS' = [USER_CAPTIONS EXCEPT ![uid] = NoCaption]
    /\ USER_COUNTERS' = [USER_COUNTERS EXCEPT ![uid] = FreshCounters]
    /\ last_caption' = [last_caption EXCEPT ![uid] = <<>>]
    /\ UNCHANGED SET_CAPTION_REQUEST

\* the caption step of an upload: "if caption_template: final_caption = ..."
expand_caption(uid) ==
    /\ is_admin(uid)
    /\ USER_CAPTIONS[uid] # NoCaption
    /\ USER_COUNTERS[uid].uploads < MaxUploads
    /\ LET r == process_dynamic_caption(USER_COUNTERS[uid], USER_CAPTIONS[uid])
       IN  /\ USER_COUNTERS' = [USER_COUNTERS EXCEPT ![uid] = r.state]
           /\ last_caption' = [last_caption EXCEPT ![uid] = r.text]
    /\ UNCHANGED <<USER_CAPTIONS, SET_CAPTION_REQUEST>>

-----------------------------------------------------------------------------
(* Operations: the coroutines the bot runs for incoming files.              *)
(* Slot i holds the i-th incoming file.  Its asyncio.Event is event i; the  *)
(* prompt message that lists its audio tracks has message id i.  An upload  *)
(* that finds no un-set event in TASKS makes a private event MaxOps + i.    *)

Slots == 1..MaxOps

OwnEvent(i) == i

PrivateEvent(i) == MaxOps + i

\* files in TMP: "in" the downloaded file, "out" the remuxed file, "mkv" the
\* converted file, "thumb" the generated thumbnail
Path(i, f) == [slot |-> i, f |-> f]

Artifacts == {"in", "out", "mkv", "thumb"}

AllPaths == { Path(i, f) : i \in Slots, f \in Artifacts }

\* Path.unlink goes by the name of the file: with the files in S go the
\* files of other operations that were given the same staging name
Unlinked(S) ==
    { p \in AllPaths :
        \/ p \in S
        \/ /\ names[p.slot][p.f].prefix # ""
           /\ \E q \in S : names[q.slot][q.f] = names[p.slot][p.f] }

NoInput == [ext |-> "", video |-> FALSE, codec |-> FALSE]

\* an incoming file: the suffix of its name, whether Telegram sent it as a
\* video, and whether it carries an audio codec the MP4 container must not hold
Inputs ==
    { [ext |-> "mp4", video |-> TRUE,  codec |-> FALSE],
      [ext |-> "mp4", video |-> TRUE,  codec |-> TRUE],
      [ext |-> "avi", video |-> TRUE,  codec |-> FALSE],
      [ext |-> "zip", video |-> FALSE, codec |-> FALSE] }

\* what ffprobe reports: the stream_index of every audio stream, in order
TracksOf(ix) == [k \in 1..Len(ix) |-> [stream_index |-> ix[k]]]

TrackLists == { TracksOf(<<>>), TracksOf(<<2>>), TracksOf(<<2, 4>>), TracksOf(<<1, 3, 4, 5, 7>>) }

\* the comma-separated pieces of a reply, each a string of characters;
\* "sup2" is the character SUPERSCRIPT TWO (U+00B2)
ReplyTokens == { <<"1">>, <<"2">>, <<"5">>, <<"x">>, <<"sup2">> }

\* replies that name more tracks than a two-track and a five-track file have
LongReplies == { <<<<"2">>, <<"1">>, <<"2">>>>,
                 <<<<"1">>, <<"2">>, <<"5">>, <<"1">>, <<"2">>, <<"5">>>> }

Replies == SeqsUpTo(ReplyTokens, MaxReplyLen) \cup LongReplies

\* "final_caption = None"
NoFinalCaption == [has |-> FALSE, text |-> <<>>]

\* tpl, repl and caption are the caption_template, quality_replacement and
\* final_caption of the operation's upload; cancelled notes that the operation
\* ended by a Cancel press on its track-list prompt, first that its expansion
\* found the owner without counter state; locals holds the names of the local
\* variables of handle_caption_only_upload that are bound; rec is the serial
\* of the post-creation record photo_handler holds as state_data
IdleOp ==
    [kind |-> "none", uid |-> "", pc |-> "idle", inp |-> NoInput, tracks |-> <<>>,
     map |-> <<>>, ce |-> 0, pin |-> "in", upload |-> "in",
     fext |-> "", thumb |-> FALSE, attempts |-> 0, delivered |-> FALSE,
     hit |-> FALSE, tpl |-> NoCaption, repl |-> "", caption |-> NoFinalCaption,
     cancelled |-> FALSE, first |-> FALSE, locals |-> {}, rec |-> 0]

\* a coroutine that has returned: its locals are gone, its results stay
EndOp(o) ==
    [IdleOp EXCEPT !.kind = o.kind, !.uid = o.uid, !.pc = "done",
                   !.delivered = o.delivered]

\* the next incoming file takes the lowest unused slot
NextSlot(i) == op[i].kind = "none" /\ \A j \in Slots : j < i => op[j].kind # "none"

Elems(s) == { s[k] : k \in 1..Len(s) }

\* list.remove(x); the callers swallow the ValueError of an absent x
RemoveFirst(s, x) ==
    IF x \in Elems(s)
    THEN LET k == MinOf({ j \in 1..Len(s) : s[j] = x })
         IN  SubSeq(s, 1, k - 1) \o SubSeq(s, k + 1, Len(s))
    ELSE s

\* dict.pop(k, None)
Pop(f, k) == [x \in (DOMAIN f) \ {k} |-> f[x]]

Put(f, k, v) == [x \in (DOMAIN f) \cup {k} |-> IF x = k THEN v ELSE f[x]]

\* an operation the owner is waiting on: it has started and not yet ended
Running(o) == o.kind # "none" /\ o.pc \notin {"idle", "listed", "done"}

\* the "Audio Change Mode" command and button
toggle_audio_change_mode(uid) ==
    /\ is_admin(uid)
    /\ MKV_AUDIO_CHANGE_MODE' =
           IF uid \in MKV_AUDIO_CHANGE_MODE
           THEN MKV_AUDIO_CHANGE_MODE \ {uid}
           ELSE MKV_AUDIO_CHANGE_MODE \cup {uid}
    /\ UNCHANGED <<PENDING_AUDIO_ORDERS, TASKS, events_set, files, op, asked>>

\* handle_audio_change_file up to its first await: the token is registered
\* and the status message is being sent
audio_change_start(uid, i) ==
    /\ is_admin(uid)
    /\ uid \in MKV_AUDIO_CHANGE_MODE
    /\ NextSlot(i)
    /\ TASKS' = [TASKS EXCEPT ![uid] = Append(@, OwnEvent(i))]
    /\ op' = [op EXCEPT ![i] = [IdleOp EXCEPT !.kind = "audio", !.uid = uid,
                                            !.pc = "audio_download"]]
    /\ UNCHANGED <<MKV_AUDIO_CHANGE_MODE, PENDING_AUDIO_ORDERS, events_set, files, asked>>

\* the mutant maps the single track by its position in the list
audio_change_finish_Position(i, ok, tracks, sent) ==
    /\ op[i].kind = "audio" /\ op[i].pc = "audio_download"
    /\ TASKS' = [TASKS EXCEPT ![op[i].uid] = RemoveFirst(@, OwnEvent(i))]
    /\ IF ~ok \/ ~sent \/ tracks = <<>>
       THEN \* download or send failed, or no audio track: the file is unlinked
            /\ op' = [op EXCEPT ![i] = EndOp(@)]
            /\ UNCHANGED <<PENDING_AUDIO_ORDERS, files>>
       ELSE IF Len(tracks) = 1
       THEN /\ op' = [op EXCEPT ![i] = [@ EXCEPT !.kind = "remux", !.pc = "rx_start",
                                                 !.tracks = tracks,
                                                 !.map = <<1>>]]
            /\ files' = files \cup {Path(i, "in")}
            /\ UNCHANGED PENDING_AUDIO_ORDERS
       ELSE /\ op' = [op EXCEPT ![i] = [@ EXCEPT !.pc = "listed", !.tracks = tracks]]
            /\ files' = files \cup {Path(i, "in")}
            /\ PENDING_AUDIO_ORDERS' =
                   Put(PENDING_AUDIO_ORDERS, i,
                       [uid |-> op[i].uid, path |-> Path(i, "in"), tracks |-> tracks])
    /\ UNCHANGED <<MKV_AUDIO_CHANGE_MODE, events_set, asked>>

\* the rest of handle_audio_change_file: download, ffprobe, and then either
\* give up, start the remux of a single track, or list the tracks and wait
audio_change_finish(i, ok, tracks, sent) ==
    /\ op[i].kind = "audio" /\ op[i].pc = "audio_download"
    /\ TASKS' = [TASKS EXCEPT ![op[i].uid] = RemoveFirst(@, OwnEvent(i))]
    /\ IF ~ok \/ ~sent \/ tracks = <<>>
       THEN \* download or send failed, or no audio track: the file is unlinked
            /\ op' = [op EXCEPT ![i] = EndOp(@)]
            /\ UNCHANGED <<PENDING_AUDIO_ORDERS, files>>
       ELSE IF Len(tracks) = 1
       THEN /\ op' = [op EXCEPT ![i] = [@ EXCEPT !.kind = "remux", !.pc = "rx_start",
                                                 !.tracks = tracks,
                                                 !.map = <<tracks[1].stream_index>>]]
            /\ files' = files \cup {Path(i, "in")}
            /\ UNCHANGED PENDING_AUDIO_ORDERS
       ELSE /\ op' = [op EXCEPT ![i] = [@ EXCEPT !.pc = "listed", !.tracks = tracks]]
            /\ files' = files \cup {Path(i, "in")}
            /\ PENDING_AUDIO_ORDERS' =
                   Put(PENDING_AUDIO_ORDERS, i,
                       [uid |-> op[i].uid, path |-> Path(i, "in"), tracks |-> tracks])
    /\ UNCHANGED <<MKV_AUDIO_CHANGE_MODE, events_set, asked>>

\* str.isdigit(): every character is a digit, superscript digits included
IsDigitChar(c) == c \in Digits \cup {"sup2"}

str_isdigit(t) == Len(t) > 0 /\ \A k \in 1..Len(t) : IsDigitChar(t[k])

\* the mutant looks for a reply to a track-list prompt before it looks for a
\* pending set-caption request
text_route_OrderFirst(uid, reply_to) ==
    IF /\ reply_to \in DOMAIN PENDING_AUDIO_ORDERS
       /\ PENDING_AUDIO_ORDERS[reply_to].uid = uid THEN "order"
    ELSE IF uid \in SET_CAPTION_REQUEST THEN "caption"
    ELSE "other"

\* which branch of text_handler a text message of uid takes
text_route(uid, reply_to) ==
    IF uid \in SET_CAPTION_REQUEST THEN "caption"
    ELSE IF /\ reply_to \in DOMAIN PENDING_AUDIO_ORDERS
            /\ PENDING_AUDIO_ORDERS[reply_to].uid = uid THEN "order"
    ELSE "other"

\* the mapping a committed reply asks for: "0:<stream_index>" per number.
\* The mutant takes the number itself as the stream index.
new_stream_map_Identity(tracks, nums) == [k \in 1..Len(nums) |-> PyInt(nums[k])]

new_stream_map(tracks, nums) == [k \in 1..Len(nums) |-> tracks[PyInt(nums[k])].stream_index]

\* the mutant has no exact-count rule below five tracks
parse_audio_order_NoThreshold(tracks, text) ==
    LET n             == Len(tracks)
        new_order_str == SelectSeq(text, str_isdigit)
        r             == Len(new_order_str)
        bad           == { k \in 1..r : \/ ~PyIntOk(new_order_str[k])
                                        \/ PyInt(new_order_str[k]) \notin 1..n }
    IN  IF r = 0 THEN [res |-> "reject", map |-> <<>>]
        ELSE IF r > n THEN [res |-> "reject", map |-> <<>>]
        ELSE IF bad # {}
        THEN IF PyIntOk(new_order_str[MinOf(bad)])
             THEN [res |-> "reject", map |-> <<>>]
             ELSE [res |-> "value_error", map |-> <<>>]
        ELSE [res |-> "commit", map |-> new_stream_map(tracks, new_order_str)]

\* the validation of a track-order reply against the listed tracks
parse_audio_order(tracks, text) ==
    LET n             == Len(tracks)
        new_order_str == SelectSeq(text, str_isdigit)
        r             == Len(new_order_str)
        bad           == { k \in 1..r : \/ ~PyIntOk(new_order_str[k])
                                        \/ PyInt(new_order_str[k]) \notin 1..n }
    IN  IF n < 5 /\ r # n THEN [res |-> "reject", map |-> <<>>]
        ELSE IF r = 0 THEN [res |-> "reject", map |-> <<>>]
        ELSE IF r > n THEN [res |-> "reject", map |-> <<>>]
        ELSE IF bad # {}
        THEN IF PyIntOk(new_order_str[MinOf(bad)])
             THEN [res |-> "reject", map |-> <<>>]
             ELSE [res |-> "value_error", map |-> <<>>]
        ELSE [res |-> "commit", map |-> new_stream_map(tracks, new_order_str)]

\* the mutant answers a text that no branch takes up by dropping every
\* pending selection
text_handler_StaleReplyClears(uid, text, reply_to) ==
    /\ is_admin(uid)
    /\ \/ /\ text_route(uid, reply_to) = "caption"
          /\ text_handler_set_caption(uid, <<Lit("order")>>)
          /\ UNCHANGED opVars
       \/ /\ text_route(uid, reply_to) = "order"
          /\ LET file_data == PENDING_AUDIO_ORDERS[reply_to]
                 d         == parse_audio_order(file_data.tracks, text)
             IN  IF d.res = "commit"
                 THEN /\ op' = [op EXCEPT ![reply_to] =
                                   [@ EXCEPT !.kind = "remux", !.pc = "rx_start",
                                             !.map = d.map]]
                      /\ PENDING_AUDIO_ORDERS' = Pop(PENDING_AUDIO_ORDERS, reply_to)
                      /\ UNCHANGED files
                 ELSE IF d.res = "reject"
                 THEN \/ UNCHANGED <<op, PENDING_AUDIO_ORDERS, files>>
                      \/ /\ op' = [op EXCEPT ![reply_to] = EndOp(@)]
                         /\ PENDING_AUDIO_ORDERS' = Pop(PENDING_AUDIO_ORDERS, reply_to)
                         /\ files' = files \ Unlinked({file_data.path})
                 ELSE UNCHANGED <<op, PENDING_AUDIO_ORDERS, files>>
          /\ UNCHANGED <<USER_CAPTIONS, USER_COUNTERS, SET_CAPTION_REQUEST, last_caption,
                         MKV_AUDIO_CHANGE_MODE, TASKS, events_set, asked>>
       \/ /\ text_route(uid, reply_to) = "other"
          /\ PENDING_AUDIO_ORDERS' = [x \in {} |-> 0]
          /\ files' = files \ { PENDING_AUDIO_ORDERS[q].path : q \in DOMAIN PENDING_AUDIO_ORDERS }
          /\ UNCHANGED <<capVars, MKV_AUDIO_CHANGE_MODE, TASKS, events_set, op, asked>>

\* text_handler: a pending set-caption request takes the text as the new
\* template; otherwise a reply to a track-list prompt is validated and either
\* committed (the remux task is created, the entry popped) or rejected.  A
\* rejection is a message sent inside the try: when sending it raises,
\* "except Exception" sends its own message, unlinks the file and pops the
\* entry, unless that second message raises too.  A text that is neither (no
\* reply, a reply to an id that is no key of PENDING_AUDIO_ORDERS, a reply to
\* another user's prompt) falls through both branches.
text_handler(uid, text, reply_to) ==
    /\ is_admin(uid)
    /\ \/ /\ text_route(uid, reply_to) = "caption"
          /\ text_handler_set_caption(uid, <<Lit("order")>>)
          /\ UNCHANGED opVars
       \/ /\ text_route(uid, reply_to) = "order"
          /\ LET file_data == PENDING_AUDIO_ORDERS[reply_to]
                 d         == parse_audio_order(file_data.tracks, text)
             IN  IF d.res = "commit"
                 THEN /\ op' = [op EXCEPT ![reply_to] =
                                   [@ EXCEPT !.kind = "remux", !.pc = "rx_start",
                                             !.map = d.map]]
                      /\ PENDING_AUDIO_ORDERS' = Pop(PENDING_AUDIO_ORDERS, reply_to)
                      /\ UNCHANGED files
                 ELSE IF d.res = "reject"
                 THEN \/ UNCHANGED <<op, PENDING_AUDIO_ORDERS, files>>
                      \/ /\ op' = [op EXCEPT ![reply_to] = EndOp(@)]
                         /\ PENDING_AUDIO_ORDERS' = Pop(PENDING_AUDIO_ORDERS, reply_to)
                         /\ files' = files \ Unlinked({file_data.path})
                 ELSE UNCHANGED <<op, PENDING_AUDIO_ORDERS, files>>
          /\ UNCHANGED <<USER_CAPTIONS, USER_COUNTERS, SET_CAPTION_REQUEST, last_caption,
                         MKV_AUDIO_CHANGE_MODE, TASKS, events_set, asked>>
       \/ /\ text_route(uid, reply_to) = "other"
          /\ UNCHANGED <<capVars, opVars>>

\* the mutant pops the entry of the prompt and leaves its file in TMP
cancel_task_cb_KeepsFile(uid, mid) ==
    LET fresh    == Elems(TASKS[uid]) \ events_set
        Noted(o) == IF o.pc = "pf_backoff" /\ o.ce \in fresh
                    THEN [o EXCEPT !.hit = TRUE] ELSE o
    IN  /\ asked' = asked \cup { i \in Slots : Running(op[i]) /\ op[i].uid = uid }
        /\ events_set' = events_set \cup Elems(TASKS[uid])
        /\ IF mid \in DOMAIN PENDING_AUDIO_ORDERS
           THEN LET file_data == PENDING_AUDIO_ORDERS[mid]
                IN  /\ PENDING_AUDIO_ORDERS' = Pop(PENDING_AUDIO_ORDERS, mid)
                    /\ files' = files
                    /\ op' = [i \in Slots |-> IF i = mid
                                              THEN [EndOp(op[i]) EXCEPT !.cancelled = TRUE]
                                              ELSE Noted(op[i])]
           ELSE /\ op' = [i \in Slots |-> Noted(op[i])]
                /\ UNCHANGED <<PENDING_AUDIO_ORDERS, files>>
        /\ UNCHANGED <<MKV_AUDIO_CHANGE_MODE, TASKS>>

\* the Cancel button under message mid (0: a status message).  Two history
\* notes are taken: asked, the operations of uid running at this press, and
\* hit, set for an upload whose cancel event this press sets while the upload
\* waits in a backoff.
cancel_task_cb(uid, mid) ==
    LET fresh    == Elems(TASKS[uid]) \ events_set
        Noted(o) == IF o.pc = "pf_backoff" /\ o.ce \in fresh
                    THEN [o EXCEPT !.hit = TRUE] ELSE o
    IN  /\ asked' = asked \cup { i \in Slots : Running(op[i]) /\ op[i].uid = uid }
        /\ events_set' = events_set \cup Elems(TASKS[uid])
        /\ IF mid \in DOMAIN PENDING_AUDIO_ORDERS
           THEN LET file_data == PENDING_AUDIO_ORDERS[mid]
                IN  /\ PENDING_AUDIO_ORDERS' = Pop(PENDING_AUDIO_ORDERS, mid)
                    /\ files' = IF file_data.uid = uid THEN files \ Unlinked({file_data.path})
                                ELSE files
                    /\ op' = [i \in Slots |-> IF i = mid
                                              THEN [EndOp(op[i]) EXCEPT !.cancelled = TRUE]
                                              ELSE Noted(op[i])]
           ELSE /\ op' = [i \in Slots |-> Noted(op[i])]
                /\ UNCHANGED <<PENDING_AUDIO_ORDERS, files>>
        /\ UNCHANGED <<MKV_AUDIO_CHANGE_MODE, TASKS>>

\* handle_audio_remux up to the call of process_file_and_upload; it registers
\* no event in TASKS
handle_audio_remux(i, res) ==
    /\ op[i].kind = "remux" /\ op[i].pc = "rx_start"
    /\ IF res = "ok"
       THEN /\ files' = files \cup {Path(i, "out")}
            /\ op' = [op EXCEPT ![i] =
                         [@ EXCEPT !.pc = "pf_start", !.pin = "out", !.fext = "mkv",
                                   !.inp = [ext |-> "mkv", video |-> FALSE, codec |-> FALSE]]]
       ELSE /\ files' = files \ Unlinked({Path(i, "in"), Path(i, "out")})
            /\ op' = [op EXCEPT ![i] = EndOp(@)]
    /\ UNCHANGED <<MKV_AUDIO_CHANGE_MODE, PENDING_AUDIO_ORDERS, TASKS, events_set, asked>>

\* the extension of the name generate_new_filename gives a forwarded file
generate_new_filename(ext) == IF ext = "" THEN "mp4" ELSE ext

\* forwarded_file_or_direct_file for a forwarded file outside the modes: the
\* token is registered, then the status message is sent outside any try
forwarded_file_start(uid, i, inp, sent) ==
    /\ is_admin(uid)
    /\ uid \notin MKV_AUDIO_CHANGE_MODE
    /\ uid \notin EDIT_CAPTION_MODE
    /\ NextSlot(i)
    /\ TASKS' = [TASKS EXCEPT ![uid] = Append(@, OwnEvent(i))]
    /\ op' = [op EXCEPT ![i] =
                 [IdleOp EXCEPT !.kind = "fwd", !.uid = uid, !.inp = inp,
                                !.fext = generate_new_filename(inp.ext),
                                !.pc = IF sent THEN "fwd_download" ELSE "done"]]
    /\ UNCHANGED <<MKV_AUDIO_CHANGE_MODE, PENDING_AUDIO_ORDERS, events_set, files, asked>>

\* m.download; on failure the handler reports and its finally runs
forwarded_file_download(i, ok) ==
    /\ op[i].kind = "fwd" /\ op[i].pc = "fwd_download"
    /\ IF ok
       THEN /\ files' = files \cup {Path(i, "in")}
            /\ op' = [op EXCEPT ![i] =
                         [@ EXCEPT !.pc = "pf_start", !.pin = "in"]]
            /\ UNCHANGED TASKS
       ELSE /\ op' = [op EXCEPT ![i] = EndOp(@)]
            /\ TASKS' = [TASKS EXCEPT ![op[i].uid] = RemoveFirst(@, OwnEvent(i))]
            /\ UNCHANGED files
    /\ UNCHANGED <<MKV_AUDIO_CHANGE_MODE, PENDING_AUDIO_ORDERS, events_set, asked>>

-----------------------------------------------------------------------------
(* process_file_and_upload, one action per stretch between awaits.          *)

MAX_RETRIES == 3

video_exts == {"mp4", "mkv", "avi", "mov", "flv", "wmv", "ts", "webm"}

\* "cancel_event = [ev for ev in TASKS.get(uid, []) if ev.is_set() is False]",
\* its first element, or a new Event that is registered nowhere
PickCancelEvent(i) ==
    LET unset == SelectSeq(TASKS[op[i].uid], LAMBDA ev : ev \notin events_set)
    IN  IF unset # <<>> THEN unset[1] ELSE PrivateEvent(i)

\* the finally of process_file_and_upload, then the finally of its caller
FilesAfter(i) ==
    LET o == op[i]
    IN  files \ Unlinked( (IF o.upload = "mkv" THEN {Path(i, "mkv")} ELSE {})
                  \cup {Path(i, o.pin)}
                  \cup (IF o.thumb THEN {Path(i, "thumb")} ELSE {})
                  \cup (IF o.kind = "remux" THEN {Path(i, "in"), Path(i, "out")}
                        ELSE {Path(i, "in")}) )

TasksAfter(i) ==
    LET mine == RemoveFirst(TASKS[op[i].uid], op[i].ce)
    IN  IF op[i].kind = "fwd" THEN RemoveFirst(mine, OwnEvent(i)) ELSE mine

Finish(i, delivered) ==
    /\ op' = [op EXCEPT ![i] = EndOp([@ EXCEPT !.delivered = delivered])]
    /\ files' = FilesAfter(i)
    /\ TASKS' = [TASKS EXCEPT ![op[i].uid] = TasksAfter(i)]

\* where the upload goes once its caption is known
AfterCaption(o) ==
    IF o.kind = "caponly" THEN "co_status"
    ELSE IF o.inp.video \/ o.inp.ext \in video_exts THEN "pf_convert" ELSE "pf_senddoc"

\* where an exception of the expansion is caught
ExceptOf(o) == IF o.kind = "caponly" THEN "co_except" ELSE "pf_except"

\* entry: the cancel event is picked and the template read; with a template
\* the expansion is handed to a worker thread (asyncio.to_thread), without
\* one final_caption stays None
pf_start(i) ==
    /\ op[i].pc = "pf_start"
    /\ LET caption_template == USER_CAPTIONS[op[i].uid]
       IN  op' = [op EXCEPT ![i] =
                     [@ EXCEPT !.ce = PickCancelEvent(i), !.upload = "in",
                               !.tpl = caption_template,
                               !.caption = NoFinalCaption,
                               !.pc = IF caption_template # NoCaption
                                      THEN "cap_cycle" ELSE AfterCaption(op[i])]]
    /\ UNCHANGED <<capVars, MKV_AUDIO_CHANGE_MODE, PENDING_AUDIO_ORDERS, TASKS,
                   events_set, files, asked>>

\* process_dynamic_caption in its worker thread.  No lock is held, so the
\* threads of two uploads interleave.  The steps below are three stretches of
\* the function, each between two of its regular-expression calls; the
\* threads can interleave more finely than that, never less.
\* USER_COUNTERS.pop(uid) by a caption command leaves the owner without an
\* entry; only the first stretch creates one, so a thread that finds none
\* later raises KeyError, which "except Exception" of the upload catches.
\* An entry always has uploads >= 1.
HasEntry(uid) == USER_COUNTERS[uid].uploads > 0

\* First stretch: the upload counter and the cycle offset.
cap_cycle(i) ==
    /\ op[i].pc = "cap_cycle"
    /\ LET uid == op[i].uid
           cs  == USER_COUNTERS[uid]
           cyc == IF HasCycle(op[i].tpl)
                  THEN CycleStep(cs.re_options_count, CycleOptions(FirstCycle(op[i].tpl)))
                  ELSE [re |-> cs.re_options_count, repl |-> ""]
       IN  /\ USER_COUNTERS' = [USER_COUNTERS EXCEPT ![uid] =
                                    [cs EXCEPT !.uploads = @ + 1,
                                               !.re_options_count = cyc.re]]
           /\ op' = [op EXCEPT ![i] = [@ EXCEPT !.pc = "cap_counters", !.repl = cyc.repl,
                                                !.first = ~HasEntry(uid)]]
    /\ UNCHANGED <<USER_CAPTIONS, SET_CAPTION_REQUEST, last_caption, opVarsButOp>>

\* second stretch: every counter of the template is seeded or advanced
cap_counters(i) ==
    /\ op[i].pc = "cap_counters"
    /\ LET uid == op[i].uid
       IN  IF HasEntry(uid)
           THEN /\ USER_COUNTERS' =
                       [USER_COUNTERS EXCEPT ![uid].dynamic_counters =
                                                 UpdateCounters(@, op[i].tpl)]
                /\ op' = [op EXCEPT ![i].pc = "cap_render"]
           ELSE /\ op' = [op EXCEPT ![i] = [@ EXCEPT !.pc = ExceptOf(op[i]), !.repl = "",
                                                     !.first = FALSE]]
                /\ UNCHANGED USER_COUNTERS
    /\ UNCHANGED <<USER_CAPTIONS, SET_CAPTION_REQUEST, last_caption, opVarsButOp>>

\* third stretch: the placeholders are replaced by the values stored now, and
\* the thread returns the text to its upload
cap_render(i) ==
    /\ op[i].pc = "cap_render"
    /\ LET uid  == op[i].uid
           dc   == USER_COUNTERS[uid].dynamic_counters
           text == [k \in 1..Len(op[i].tpl) |-> RenderToken(op[i].tpl[k], op[i].repl, dc)]
       IN  IF HasEntry(uid)
           THEN /\ op' = [op EXCEPT ![i] =
                              [@ EXCEPT !.pc = AfterCaption(op[i]), !.repl = "",
                                        !.caption = [has |-> TRUE, text |-> text]]]
                /\ last_caption' = [last_caption EXCEPT ![uid] = text]
           ELSE /\ op' = [op EXCEPT ![i] = [@ EXCEPT !.pc = ExceptOf(op[i]), !.repl = "",
                                                     !.first = FALSE]]
                /\ UNCHANGED last_caption
    /\ UNCHANGED <<USER_CAPTIONS, USER_COUNTERS, SET_CAPTION_REQUEST, opVarsButOp>>

\* the video path up to the upload loop: the conversion of a video that is
\* neither .mp4 nor .mkv, then metadata and the generated thumbnail (no custom
\* thumbnail is configured).  res is "ok", "failed" (the original is uploaded;
\* the partial output may stay) or "unsent" (the status message could not be
\* sent at all); other videos are uploaded as they are.
pf_convert(i, res, left) ==
    /\ op[i].pc = "pf_convert"
    /\ IF op[i].inp.ext \in {"mp4", "mkv"}
       THEN /\ op' = [op EXCEPT ![i] = [@ EXCEPT !.pc = "pf_send", !.thumb = TRUE]]
            /\ files' = files \cup {Path(i, "thumb")}
       ELSE IF res = "ok"
       THEN /\ op' = [op EXCEPT ![i] = [@ EXCEPT !.pc = "pf_send", !.upload = "mkv",
                                                 !.fext = "mkv", !.thumb = TRUE]]
            /\ files' = files \cup {Path(i, "mkv"), Path(i, "thumb")}
       ELSE IF res = "failed"
       THEN /\ op' = [op EXCEPT ![i] = [@ EXCEPT !.pc = "pf_send", !.thumb = TRUE]]
            /\ files' = files \cup {Path(i, "thumb")}
                              \cup (IF left THEN {Path(i, "mkv")} ELSE {})
       ELSE /\ op' = [op EXCEPT ![i].pc = "pf_except"]
            /\ UNCHANGED files
    /\ UNCHANGED <<capVars, MKV_AUDIO_CHANGE_MODE, PENDING_AUDIO_ORDERS, TASKS,
                   events_set, asked>>

\* one pass of the video loop: send_video, then the status clean-up; res is
\* "ok", "undeleted" (sent, but deleting the status messages raised) or "failed"
pf_send(i, res) ==
    /\ op[i].pc = "pf_send"
    /\ IF res = "ok"
       THEN /\ op' = [op EXCEPT ![i] = EndOp([@ EXCEPT !.delivered = TRUE,
                                                       !.attempts = @ + 1])]
            /\ files' = FilesAfter(i)
            /\ TASKS' = [TASKS EXCEPT ![op[i].uid] = TasksAfter(i)]
       ELSE /\ op' = [op EXCEPT ![i] = [@ EXCEPT !.pc = "pf_backoff", !.attempts = @ + 1,
                                                 !.delivered = @ \/ (res = "undeleted")]]
            /\ UNCHANGED <<files, TASKS>>
    /\ UNCHANGED <<capVars, MKV_AUDIO_CHANGE_MODE, PENDING_AUDIO_ORDERS, events_set, asked>>

\* the mutant expands the template again before every retry
pf_backoff_Reexpands(i) ==
    /\ op[i].pc = "pf_backoff"
    /\ op' = [op EXCEPT ![i] =
                 [@ EXCEPT !.hit = FALSE,
                           !.pc = IF op[i].attempts >= MAX_RETRIES THEN "pf_except"
                                  ELSE IF op[i].tpl # NoCaption THEN "cap_cycle"
                                  ELSE "pf_send"]]
    /\ UNCHANGED <<capVars, MKV_AUDIO_CHANGE_MODE, PENDING_AUDIO_ORDERS, TASKS,
                   events_set, files, asked>>

\* "await asyncio.sleep(2 ** upload_attempts)" is over
pf_backoff(i) ==
    /\ op[i].pc = "pf_backoff"
    /\ op' = [op EXCEPT ![i] =
                 [@ EXCEPT !.hit = FALSE,
                           !.pc = IF op[i].attempts < MAX_RETRIES THEN "pf_send"
                                  ELSE "pf_except"]]
    /\ UNCHANGED <<capVars, MKV_AUDIO_CHANGE_MODE, PENDING_AUDIO_ORDERS, TASKS,
                   events_set, files, asked>>

\* the document path: one send_document, then the status clean-up
pf_senddoc(i, res) ==
    /\ op[i].pc = "pf_senddoc"
    /\ IF res = "ok"
       THEN /\ op' = [op EXCEPT ![i] = EndOp([@ EXCEPT !.delivered = TRUE,
                                                       !.attempts = @ + 1,
                                                       !.fext = op[i].inp.ext])]
            /\ files' = FilesAfter(i)
            /\ TASKS' = [TASKS EXCEPT ![op[i].uid] = TasksAfter(i)]
       ELSE /\ op' = [op EXCEPT ![i] = [@ EXCEPT !.pc = "pf_except", !.attempts = @ + 1,
                                                 !.fext = op[i].inp.ext,
                                                 !.delivered = (res = "undeleted")]]
            /\ UNCHANGED <<files, TASKS>>
    /\ UNCHANGED <<capVars, MKV_AUDIO_CHANGE_MODE, PENDING_AUDIO_ORDERS, events_set, asked>>

\* "except Exception": the error is reported, then the finally blocks run
pf_except(i) ==
    /\ op[i].pc = "pf_except"
    /\ Finish(i, op[i].delivered)
    /\ UNCHANGED <<capVars, MKV_AUDIO_CHANGE_MODE, PENDING_AUDIO_ORDERS, events_set, asked>>

-----------------------------------------------------------------------------
(* periodic_cleanup.  Time is counted in hours, the length of its sleep.    *)

\* "timedelta(days=3)", in hours
RETENTION == 72

\* ages above this are not told apart
MaxAge == RETENTION + 2

\* the thumbnail file TMP/thumb_{uid}.jpg of an owner who has none
NoFile == [exists |-> FALSE, age |-> 0]

\* download_stream before it is called: pc is its position, total the bytes
\* written to the output file (in KiB), res the result it returned
IdleDl == [pc |-> "idle", total |-> 0, res |-> ""]

\* the mutant keeps files for a day longer
periodic_cleanup_Lenient ==
    /\ due
    /\ LET old == { p \in files : age[p] > RETENTION + 24 }
       IN  /\ files' = files \ old
           /\ swept' = swept \cup old
           /\ age' = [p \in AllPaths |-> IF p \in old THEN 0 ELSE age[p]]
    /\ thumb_jpg' = [u \in Users |->
                        IF thumb_jpg[u].exists /\ thumb_jpg[u].age > RETENTION + 24
                        THEN NoFile ELSE thumb_jpg[u]]
    /\ due' = FALSE
    /\ UNCHANGED <<capVars, MKV_AUDIO_CHANGE_MODE, PENDING_AUDIO_ORDERS, TASKS,
                   events_set, op, asked>>

\* one pass over TMP: every file whose st_mtime is more than 3 days back
\* is unlinked, a saved thumbnail like any other file
periodic_cleanup ==
    /\ due
    /\ LET old == { p \in files : age[p] > RETENTION }
       IN  /\ files' = files \ old
           /\ swept' = swept \cup old
           /\ age' = [p \in AllPaths |-> IF p \in old THEN 0 ELSE age[p]]
    /\ thumb_jpg' = [u \in Users |->
                        IF thumb_jpg[u].exists /\ thumb_jpg[u].age > RETENTION
                        THEN NoFile ELSE thumb_jpg[u]]
    /\ due' = FALSE
    /\ UNCHANGED <<capVars, MKV_AUDIO_CHANGE_MODE, PENDING_AUDIO_ORDERS, TASKS,
                   events_set, op, asked>>

\* "await asyncio.sleep(3600)": an hour passes between two passes
hour_passes ==
    /\ ~due
    /\ due' = TRUE
    /\ age' = [p \in AllPaths |->
                  IF p \in files /\ age[p] < MaxAge THEN age[p] + 1 ELSE age[p]]
    /\ thumb_jpg' = [u \in Users |->
                        IF thumb_jpg[u].exists /\ thumb_jpg[u].age < MaxAge
                        THEN [thumb_jpg[u] EXCEPT !.age = @ + 1] ELSE thumb_jpg[u]]
    /\ UNCHANGED <<capVars, opVars, swept>>

\* a step of an operation: a file it writes is new, a file it unlinks is gone
Stamped ==
    /\ age' = [p \in AllPaths |-> IF p \in files /\ p \in files' THEN age[p] ELSE 0]
    /\ UNCHANGED <<due, swept>>

-----------------------------------------------------------------------------
(* convert_to_mkv, phase by phase.  Each ffmpeg run ends with an exit code   *)
(* or in the one-hour timeout of subprocess.run, and leaves the output path  *)
(* missing, empty or holding a file.                                         *)

ExitCodes == {"zero", "nonzero", "timeout"}

OutStates == {"missing", "empty", "good"}

IdleConv == [pc |-> "idle", slot |-> 0, a |-> "", outA |-> "", b |-> "", out |-> "missing",
             ok |-> FALSE]

\* process_file_and_upload calls convert_to_mkv for a video that is neither
\* .mp4 nor .mkv, after the status message was sent
convert_call(i) ==
    /\ op[i].pc = "pf_convert"
    /\ op[i].inp.ext \notin {"mp4", "mkv"}
    /\ conv.pc = "idle"
    /\ conv' = [IdleConv EXCEPT !.pc = "phaseA", !.slot = i]
    /\ UNCHANGED <<capVars, opVars, sweepVars, nameVars, histVars, extVars>>

\* the stream-copy run: a non-zero exit leads to the fallback, a timeout
\* raises TimeoutExpired inside the try
convert_phaseA(exit, out) ==
    /\ conv.pc = "phaseA"
    /\ conv' = [conv EXCEPT !.a = exit, !.outA = out, !.out = out,
                            !.pc = IF exit = "timeout" THEN "except"
                                   ELSE IF exit = "nonzero" THEN "phaseB"
                                   ELSE "check"]
    /\ UNCHANGED <<capVars, opVars, sweepVars, nameVars, histVars, extVars>>

\* the re-encoding run: a non-zero exit raises, and so does a timeout
convert_phaseB(exit, out) ==
    /\ conv.pc = "phaseB"
    /\ conv' = [conv EXCEPT !.b = exit, !.out = out,
                            !.pc = IF exit = "zero" THEN "check" ELSE "except"]
    /\ UNCHANGED <<capVars, opVars, sweepVars, nameVars, histVars, extVars>>

\* "if not out_path.exists() or out_path.stat().st_size == 0: raise"
convert_check ==
    /\ conv.pc = "check"
    /\ conv' = IF conv.out = "good" THEN [conv EXCEPT !.ok = TRUE, !.pc = "ret"]
               ELSE [conv EXCEPT !.pc = "except"]
    /\ UNCHANGED <<capVars, opVars, sweepVars, nameVars, histVars, extVars>>

\* "except Exception as e: return False, str(e)"
convert_except ==
    /\ conv.pc = "except"
    /\ conv' = [conv EXCEPT !.ok = FALSE, !.pc = "ret"]
    /\ UNCHANGED <<capVars, opVars, sweepVars, nameVars, histVars, extVars>>

\* back in process_file_and_upload: "ok, err = await convert_to_mkv(...)"
convert_return(i) ==
    /\ conv.pc = "ret" /\ conv.slot = i
    /\ pf_convert(i, IF conv.ok THEN "ok" ELSE "failed", conv.out # "missing")
    /\ conv' = [conv EXCEPT !.pc = "idle"]
    /\ UNCHANGED <<sweepVars, nameVars, histVars, extVars>>

-----------------------------------------------------------------------------
(* The names of staging files.  A path is the f-string the handler builds:   *)
(* a prefix, the uid, the clock second, and the file's name.                 *)

Stems == {"a", "b"}

NoPath == [prefix |-> "", uid |-> "", sec |-> 0, stem |-> "", ext |-> ""]

\* TMP / f"{prefix}_{uid}_{int(datetime.now().timestamp())}_{stem}.{ext}"
StagingPath(prefix, uid, sec, stem, ext) ==
    [prefix |-> prefix, uid |-> uid, sec |-> sec, stem |-> stem, ext |-> ext]

\* mkv_path = TMP / f"{in_path.stem}.mkv"
mkv_path(in_path) == [in_path EXCEPT !.ext = "mkv"]

\* temp_thumb_path = TMP / f"thumb_{uid}_{int(datetime.now().timestamp())}.jpg"
temp_thumb_path(uid, sec) == StagingPath("thumb", uid, sec, "", "jpg")

NoNames == [f \in Artifacts |-> NoPath]

\* the operation of slot i chooses paths; the paths of an ended operation
\* are forgotten
Named(i, chosen) ==
    /\ names' = [names EXCEPT ![i] = IF op'[i].pc = "done" THEN NoNames ELSE chosen]
    /\ UNCHANGED <<now, sweepVars, convVars, histVars, extVars>>

\* the clock reaches the next second
tick ==
    /\ now < MaxSec
    /\ now' = now + 1
    /\ UNCHANGED <<capVars, opVars, sweepVars, convVars, names, histVars, extVars>>

\* the paths process_file_and_upload adds before the delivery: the converted
\* file for a video that is neither .mp4 nor .mkv, and the thumbnail
ConversionNames(i, res) ==
    IF res = "unsent" /\ op[i].inp.ext \notin {"mp4", "mkv"} THEN names[i]
    ELSE [names[i] EXCEPT
             !["mkv"]   = IF op[i].inp.ext \in {"mp4", "mkv"} THEN @
                          ELSE mkv_path(names[i][op[i].pin]),
             !["thumb"] = temp_thumb_path(op[i].uid, now)]

-----------------------------------------------------------------------------
(* The modes and the dispatch of an incoming media file.                     *)

\* the "Edit Caption Mode" command and button
toggle_edit_caption_mode(uid) ==
    /\ is_admin(uid)
    /\ EDIT_CAPTION_MODE' =
           IF uid \in EDIT_CAPTION_MODE
           THEN EDIT_CAPTION_MODE \ {uid}
           ELSE EDIT_CAPTION_MODE \cup {uid}
    /\ UNCHANGED SUBSCRIBERS

\* /start and /help: whoever sends it is added to SUBSCRIBERS; there is no
\* is_admin test
start_handler(uid) ==
    /\ SUBSCRIBERS' = SUBSCRIBERS \cup {uid}
    /\ UNCHANGED EDIT_CAPTION_MODE

\* the mutant asks for the caption-only mode first
file_route_CaptionFirst(uid, forwarded) ==
    IF uid \in EDIT_CAPTION_MODE /\ forwarded THEN "caption"
    ELSE IF uid \in MKV_AUDIO_CHANGE_MODE THEN "audio"
    ELSE IF forwarded THEN "fwd"
    ELSE "none"

\* which handler forwarded_file_or_direct_file gives a media file of uid to
file_route(uid, forwarded) ==
    IF uid \in MKV_AUDIO_CHANGE_MODE THEN "audio"
    ELSE IF uid \in EDIT_CAPTION_MODE /\ forwarded THEN "caption"
    ELSE IF forwarded THEN "fwd"
    ELSE "none"

\* handle_caption_only_upload up to the expansion: without a saved caption it
\* replies and returns, with one it registers its token and hands the
\* template to the worker thread
caption_only_start(uid, i, inp) ==
    /\ NextSlot(i)
    /\ LET caption_to_use == USER_CAPTIONS[uid]
       IN  IF caption_to_use = NoCaption
           THEN /\ op' = [op EXCEPT ![i] = EndOp([IdleOp EXCEPT !.kind = "caponly",
                                                                !.uid = uid])]
                /\ UNCHANGED TASKS
           ELSE /\ TASKS' = [TASKS EXCEPT ![uid] = Append(@, OwnEvent(i))]
                /\ op' = [op EXCEPT ![i] =
                             [IdleOp EXCEPT !.kind = "caponly", !.uid = uid, !.inp = inp,
                                            !.fext = inp.ext, !.tpl = caption_to_use,
                                            !.pc = "cap_cycle"]]
    /\ UNCHANGED <<MKV_AUDIO_CHANGE_MODE, PENDING_AUDIO_ORDERS, events_set, files, asked>>

\* the finally of handle_caption_only_upload: one try around the unlinks and
\* the removal of the token, so that the NameError of a local that was never
\* bound ends it before TASKS[uid].remove
caption_only_finally(i, delivered) ==
    LET o == op[i]
    IN  /\ op' = [op EXCEPT ![i] = EndOp([@ EXCEPT !.delivered = delivered])]
        /\ files' = IF "tmp_path" \notin o.locals THEN files
                    ELSE files \ Unlinked({Path(i, "in")}
                                 \cup (IF o.thumb THEN {Path(i, "thumb")} ELSE {}))
        /\ TASKS' = IF {"tmp_path", "temp_thumb_path"} \subseteq o.locals
                    THEN [TASKS EXCEPT ![o.uid] = RemoveFirst(@, OwnEvent(i))]
                    ELSE TASKS

\* the status message; tmp_path is bound once it was sent
caption_only_status(i, sent) ==
    /\ op[i].pc = "co_status"
    /\ op' = [op EXCEPT ![i] =
                 IF sent THEN [@ EXCEPT !.pc = "co_download", !.locals = {"tmp_path"}]
                 ELSE [@ EXCEPT !.pc = "co_except"]]
    /\ UNCHANGED <<MKV_AUDIO_CHANGE_MODE, PENDING_AUDIO_ORDERS, TASKS, events_set, files,
                   asked>>

\* m.download, the metadata, and for a video without a custom thumbnail the
\* generated one; temp_thumb_path is bound after the download
caption_only_download(i, ok, thumb_ok) ==
    /\ op[i].pc = "co_download"
    /\ IF ok
       THEN LET made == op[i].inp.video /\ op[i].uid \notin USER_THUMBS /\ thumb_ok
            IN  /\ files' = files \cup {Path(i, "in")}
                                  \cup (IF made THEN {Path(i, "thumb")} ELSE {})
                /\ op' = [op EXCEPT ![i] =
                             [@ EXCEPT !.pc = "co_send", !.thumb = made,
                                       !.locals = {"tmp_path", "temp_thumb_path"}]]
       ELSE /\ op' = [op EXCEPT ![i].pc = "co_except"]
            /\ UNCHANGED files
    /\ UNCHANGED <<MKV_AUDIO_CHANGE_MODE, PENDING_AUDIO_ORDERS, TASKS, events_set, asked>>

\* send_video or send_document, then status_msg.delete; res is "ok",
\* "undeleted" (sent, but deleting the status message raised) or "failed"
caption_only_send(i, res) ==
    /\ op[i].pc = "co_send"
    /\ IF res = "ok"
       THEN caption_only_finally(i, TRUE)
       ELSE /\ op' = [op EXCEPT ![i] = [@ EXCEPT !.pc = "co_except",
                                                 !.delivered = (res = "undeleted")]]
            /\ UNCHANGED <<files, TASKS>>
    /\ UNCHANGED <<MKV_AUDIO_CHANGE_MODE, PENDING_AUDIO_ORDERS, events_set, asked>>

\* "except Exception": the error is reported, then the finally runs
caption_only_except(i) ==
    /\ op[i].pc = "co_except"
    /\ caption_only_finally(i, op[i].delivered)
    /\ UNCHANGED <<MKV_AUDIO_CHANGE_MODE, PENDING_AUDIO_ORDERS, events_set, asked>>

\* forwarded_file_or_direct_file: a video or document of uid arrives
forwarded_file_or_direct_file(uid, i, inp, forwarded, sent) ==
    /\ is_admin(uid)
    /\ \/ file_route(uid, forwarded) = "audio" /\ audio_change_start(uid, i)
       \/ file_route(uid, forwarded) = "caption" /\ caption_only_start(uid, i, inp)
       \/ file_route(uid, forwarded) = "fwd" /\ forwarded_file_start(uid, i, inp, sent)
       \/ file_route(uid, forwarded) = "none" /\ UNCHANGED opVars
    /\ UNCHANGED capVars

\* "except Exception" of process_file_and_upload: the report is an await
\* outside any try, so when it raises the exception leaves the function
\* once the finally has run
pf_except_report(i, reported) ==
    /\ pf_except(i)
    /\ raised' = IF reported THEN raised
                 ELSE raised \cup {<<i, "process_file_and_upload">>}

-----------------------------------------------------------------------------
(* The custom thumbnail: /setthumb, the photo that follows, /del_thumb.      *)

\* a file that does not exist

\* /setthumb: with a time argument the thumbnail time is stored (a time that
\* does not parse is answered only), without one the next photo is asked for
setthumb_prompt(uid, arg) ==
    /\ is_admin(uid)
    /\ IF arg = "time"
       THEN /\ USER_THUMB_TIME' = USER_THUMB_TIME \cup {uid}
            /\ UNCHANGED SET_THUMB_REQUEST
       ELSE IF arg = "photo"
       THEN /\ SET_THUMB_REQUEST' = SET_THUMB_REQUEST \cup {uid}
            /\ UNCHANGED USER_THUMB_TIME
       ELSE UNCHANGED <<SET_THUMB_REQUEST, USER_THUMB_TIME>>
    /\ UNCHANGED <<USER_THUMBS, thumb_jpg, said>>

\* /del_thumb: the entry goes only when its file exists; the reply is chosen
\* after the thumbnail time was popped
del_thumb_cmd(uid) ==
    /\ is_admin(uid)
    /\ LET thumb_path == uid \in USER_THUMBS
       IN  /\ IF thumb_path /\ thumb_jpg[uid].exists
              THEN /\ thumb_jpg' = [thumb_jpg EXCEPT ![uid] = NoFile]
                   /\ USER_THUMBS' = USER_THUMBS \ {uid}
              ELSE UNCHANGED <<thumb_jpg, USER_THUMBS>>
           /\ USER_THUMB_TIME' = USER_THUMB_TIME \ {uid}
           /\ said' = IF ~(thumb_path \/ uid \in USER_THUMB_TIME') THEN "none"
                      ELSE "deleted"
    /\ UNCHANGED SET_THUMB_REQUEST

\* the states of a post-creation record, in the order of the dialogue
PostStates ==
    <<"awaiting_image", "awaiting_name_change", "awaiting_genres", "awaiting_season_list">>

\* /create_post: off drops the mode and the record, on makes a new record
toggle_create_post_mode(uid) ==
    /\ is_admin(uid)
    /\ IF uid \in CREATE_POST_MODE
       THEN /\ CREATE_POST_MODE' = CREATE_POST_MODE \ {uid}
            /\ POST_CREATION_STATE' = Pop(POST_CREATION_STATE, uid)
            /\ UNCHANGED post_serial
       ELSE /\ post_serial < MaxPosts
            /\ CREATE_POST_MODE' = CREATE_POST_MODE \cup {uid}
            /\ post_serial' = post_serial + 1
            /\ POST_CREATION_STATE' =
                   Put(POST_CREATION_STATE, uid,
                       [state |-> "awaiting_image", serial |-> post_serial + 1])

\* the record the handler holds as state_data is the one in the store
Holds(i) ==
    /\ op[i].uid \in DOMAIN POST_CREATION_STATE
    /\ POST_CREATION_STATE[op[i].uid].serial = op[i].rec

\* photo_handler up to its first await: a photo for the post when the record
\* waits for the image, otherwise the thumbnail when one was asked for
photo_handler_start(uid, i) ==
    /\ is_admin(uid)
    /\ NextSlot(i)
    /\ IF /\ uid \in CREATE_POST_MODE
          /\ uid \in DOMAIN POST_CREATION_STATE
          /\ POST_CREATION_STATE[uid].state = "awaiting_image"
       THEN /\ op' = [op EXCEPT ![i] =
                         [IdleOp EXCEPT !.kind = "photo", !.uid = uid, !.pc = "post_image",
                                        !.rec = POST_CREATION_STATE[uid].serial]]
            /\ UNCHANGED SET_THUMB_REQUEST
       ELSE IF uid \in SET_THUMB_REQUEST
       THEN /\ op' = [op EXCEPT ![i] =
                         [IdleOp EXCEPT !.kind = "photo", !.uid = uid,
                                        !.pc = "thumb_download"]]
            /\ SET_THUMB_REQUEST' = SET_THUMB_REQUEST \ {uid}
       ELSE /\ op' = [op EXCEPT ![i] = EndOp([IdleOp EXCEPT !.kind = "photo",
                                                            !.uid = uid])]
            /\ UNCHANGED SET_THUMB_REQUEST
    /\ UNCHANGED <<USER_THUMBS, USER_THUMB_TIME, thumb_jpg, said, postVars>>

\* the rest of photo_handler.  res is "ok", "early" (m.download raised) or
\* "late" (a call after the download raised).  For the post the state is
\* written into state_data once the image is saved; the except reports, and
\* only after the report drops the mode and whatever record uid has.  For the
\* thumbnail the entry is set once the image is saved.
photo_handler_finish(i, res, reported) ==
    /\ op[i].kind = "photo"
    /\ LET uid   == op[i].uid
           saved == IF res # "early" /\ Holds(i)
                    THEN [POST_CREATION_STATE EXCEPT
                             ![uid] = [@ EXCEPT !.state = "awaiting_name_change"]]
                    ELSE POST_CREATION_STATE
       IN  \/ /\ op[i].pc = "post_image"
              /\ IF res # "ok" /\ reported
                 THEN /\ CREATE_POST_MODE' = CREATE_POST_MODE \ {uid}
                      /\ POST_CREATION_STATE' = Pop(POST_CREATION_STATE, uid)
                 ELSE /\ POST_CREATION_STATE' = saved
                      /\ UNCHANGED CREATE_POST_MODE
              /\ UNCHANGED <<post_serial, thumbVars>>
           \/ /\ op[i].pc = "thumb_download"
              /\ thumb_jpg' = IF res = "early" THEN thumb_jpg
                              ELSE [thumb_jpg EXCEPT ![uid] = [exists |-> TRUE, age |-> 0]]
              /\ USER_THUMBS' = IF res = "ok" THEN USER_THUMBS \cup {uid} ELSE USER_THUMBS
              /\ USER_THUMB_TIME' = IF res = "ok" THEN USER_THUMB_TIME \ {uid}
                                    ELSE USER_THUMB_TIME
              /\ UNCHANGED <<SET_THUMB_REQUEST, said, postVars>>
    /\ op' = [op EXCEPT ![i] = EndOp(@)]

\* the post-creation branch of text_handler, reached by a text that is
\* neither a caption nor a track order: the name and the genres advance the
\* record before the first await, the season list ends the dialogue unless
\* the edit of the post or the final reply raises
text_handler_post(uid, reply_to, res) ==
    IF /\ is_admin(uid)
       /\ text_route(uid, reply_to) = "other"
       /\ uid \in CREATE_POST_MODE
       /\ uid \in DOMAIN POST_CREATION_STATE
    THEN LET current_state == POST_CREATION_STATE[uid].state
         IN  IF current_state = "awaiting_name_change"
             THEN /\ POST_CREATION_STATE' =
                         [POST_CREATION_STATE EXCEPT ![uid].state = "awaiting_genres"]
                  /\ UNCHANGED <<CREATE_POST_MODE, post_serial>>
             ELSE IF current_state = "awaiting_genres"
             THEN /\ POST_CREATION_STATE' =
                         [POST_CREATION_STATE EXCEPT ![uid].state = "awaiting_season_list"]
                  /\ UNCHANGED <<CREATE_POST_MODE, post_serial>>
             ELSE IF current_state = "awaiting_season_list" /\ res = "ok"
             THEN /\ CREATE_POST_MODE' = CREATE_POST_MODE \ {uid}
                  /\ POST_CREATION_STATE' = Pop(POST_CREATION_STATE, uid)
                  /\ UNCHANGED post_serial
             ELSE UNCHANGED postVars
    ELSE UNCHANGED postVars

-----------------------------------------------------------------------------
(* download_stream.  Sizes are counted in KiB.                              *)

\* "MAX_SIZE = 4 * 1024 * 1024 * 1024" bytes, in KiB
MAX_SIZE == 4194304

\* "chunk_size = 1024 * 1024" bytes, in KiB
chunk_size == 1024

\* the lengths of the chunks iter_chunked yields: an empty one, a short one
\* and a full one
ChunkLens == {0, chunk_size \div 2, chunk_size}

\* the output file is opened for writing
download_stream_open ==
    /\ dl.pc = "idle"
    /\ dl' = [dl EXCEPT !.pc = "reading"]

\* one pass of the loop over a received chunk: the cancel test, the break on
\* an empty chunk, the size test on the bytes written so far, then the write
download_stream_chunk(len, set) ==
    /\ dl.pc = "reading"
    /\ dl' = IF set THEN [dl EXCEPT !.pc = "returned", !.res = "cancelled"]
             ELSE IF len = 0 THEN [dl EXCEPT !.pc = "returned", !.res = "ok"]
             ELSE IF dl.total > MAX_SIZE
             THEN [dl EXCEPT !.pc = "returned", !.res = "too_big"]
             ELSE [dl EXCEPT !.total = @ + len]

\* the response has no more chunks
download_stream_end ==
    /\ dl.pc = "reading"
    /\ dl' = [dl EXCEPT !.pc = "returned", !.res = "ok"]

\* reading or writing raised
download_stream_raise ==
    /\ dl.pc = "reading"
    /\ dl' = [dl EXCEPT !.pc = "returned", !.res = "error"]


-----------------------------------------------------------------------------
(* Specifications *)

Init ==
    /\ USER_CAPTIONS = [u \in Users |-> NoCaption]
    /\ USER_COUNTERS = [u \in Users |-> FreshCounters]
    /\ SET_CAPTION_REQUEST = {}
    /\ last_caption = [u \in Users |-> <<>>]
    /\ MKV_AUDIO_CHANGE_MODE = {}
    /\ PENDING_AUDIO_ORDERS = [x \in {} |-> 0]
    /\ TASKS = [u \in Users |-> <<>>]
    /\ events_set = {}
    /\ files = {}
    /\ op = [i \in Slots |-> IdleOp]
    /\ asked = {}
    /\ age = [p \in AllPaths |-> 0]
    /\ due = TRUE
    /\ swept = {}
    /\ conv = IdleConv
    /\ now = 0
    /\ names = [i \in Slots |-> NoNames]
    /\ ignored = {}
    /\ EDIT_CAPTION_MODE = {}
    /\ SUBSCRIBERS = {}
    /\ SET_THUMB_REQUEST = {}
    /\ USER_THUMBS = {}
    /\ USER_THUMB_TIME = {}
    /\ thumb_jpg = [u \in Users |-> NoFile]
    /\ said = ""
    /\ CREATE_POST_MODE = {}
    /\ POST_CREATION_STATE = [x \in {} |-> 0]
    /\ post_serial = 0
    /\ dl = IdleDl
    /\ raised = {}

\* the caption commands and the caption step of uploads
CaptionNext ==
    /\ \/ \E uid \in Users : set_caption_prompt(uid)
       \/ \E uid \in Users, text \in Templates : text_handler_set_caption(uid, text)
       \/ \E uid \in Users : delete_caption_cb(uid)
       \/ \E uid \in Users : expand_caption(uid)
    /\ UNCHANGED <<opVars, auxVars>>

\* a Cancel button is pressed by the user in whose chat the message is
CanPress(uid, mid) ==
    mid \in DOMAIN PENDING_AUDIO_ORDERS => PENDING_AUDIO_ORDERS[mid].uid = uid

\* track-change mode: files come in, their tracks are listed, the owner
\* replies or cancels
TracksNext ==
    \/ \E uid \in Users : toggle_audio_change_mode(uid) /\ UNCHANGED <<capVars, auxVars>>
    \/ \E uid \in Users, i \in Slots : audio_change_start(uid, i) /\ UNCHANGED <<capVars, auxVars>>
    \/ \E i \in Slots, ok \in BOOLEAN, tracks \in TrackLists, sent \in BOOLEAN :
           audio_change_finish(i, ok, tracks, sent) /\ UNCHANGED <<capVars, auxVars>>
    \/ \E uid \in Users : set_caption_prompt(uid) /\ UNCHANGED <<opVars, auxVars>>
    \/ \E uid \in Users, text \in Replies, reply_to \in 0..MaxOps :
           text_handler(uid, text, reply_to) /\ UNCHANGED auxVars
    \/ \E uid \in Users, mid \in 0..MaxOps :
           CanPress(uid, mid) /\ cancel_task_cb(uid, mid) /\ UNCHANGED <<capVars, auxVars>>

\* forwarded files and track-change files run through the upload pipeline
OpsNext ==
    \/ \E uid \in Users : toggle_audio_change_mode(uid) /\ UNCHANGED <<capVars, auxVars>>
    \/ \E uid \in Users, i \in Slots : audio_change_start(uid, i) /\ UNCHANGED <<capVars, auxVars>>
    \/ \E i \in Slots, ok \in BOOLEAN, tracks \in TrackLists, sent \in BOOLEAN :
           audio_change_finish(i, ok, tracks, sent) /\ UNCHANGED <<capVars, auxVars>>
    \/ \E uid \in Users, mid \in 0..MaxOps :
           CanPress(uid, mid) /\ cancel_task_cb(uid, mid) /\ UNCHANGED <<capVars, auxVars>>
    \/ \E uid \in Users, i \in Slots, inp \in Inputs, sent \in BOOLEAN :
           forwarded_file_start(uid, i, inp, sent) /\ UNCHANGED <<capVars, auxVars>>
    \/ \E i \in Slots, ok \in BOOLEAN :
           forwarded_file_download(i, ok) /\ UNCHANGED <<capVars, auxVars>>
    \/ \E i \in Slots, res \in {"ok", "failed"} :
           handle_audio_remux(i, res) /\ UNCHANGED <<capVars, auxVars>>
    \/ \E i \in Slots : pf_start(i) /\ UNCHANGED auxVars
    \/ \E i \in Slots, res \in {"ok", "failed", "unsent"}, left \in BOOLEAN :
           pf_convert(i, res, left) /\ UNCHANGED auxVars
    \/ \E i \in Slots, res \in {"ok", "undeleted", "failed"} : pf_send(i, res)
           /\ UNCHANGED auxVars
    \/ \E i \in Slots : pf_backoff(i) /\ UNCHANGED auxVars
    \/ \E i \in Slots, res \in {"ok", "undeleted", "failed"} : pf_senddoc(i, res)
           /\ UNCHANGED auxVars
    \/ \E i \in Slots : pf_except(i) /\ UNCHANGED auxVars

\* the templates the owner sets while uploads run
UploadTemplates ==
    { <<Lit("Episode"), Ctr("none", <<"0", "1">>)>>,
      <<Cyc(<<"480p", "720p">>)>>,
      <<Ctr("none", <<"0", "1">>), Cond("End", <<"0", "2">>, TRUE)>> }

\* a forwarded file that is no video: it goes the document path
Documents == { inp \in Inputs : ~inp.video /\ inp.ext \notin video_exts }

\* forwarded documents are uploaded while the owner sets caption templates
UploadNext ==
    \/ \E uid \in Users : set_caption_prompt(uid) /\ UNCHANGED <<opVars, auxVars>>
    \/ \E uid \in Users, text \in UploadTemplates :
           text_handler_set_caption(uid, text) /\ UNCHANGED <<opVars, auxVars>>
    \/ \E uid \in Users, i \in Slots, inp \in Documents, sent \in BOOLEAN :
           forwarded_file_start(uid, i, inp, sent) /\ UNCHANGED <<capVars, auxVars>>
    \/ \E i \in Slots, ok \in BOOLEAN :
           forwarded_file_download(i, ok) /\ UNCHANGED <<capVars, auxVars>>
    \/ \E i \in Slots : pf_start(i) /\ UNCHANGED auxVars
    \/ \E i \in Slots : cap_cycle(i) /\ UNCHANGED auxVars
    \/ \E i \in Slots : cap_counters(i) /\ UNCHANGED auxVars
    \/ \E i \in Slots : cap_render(i) /\ UNCHANGED auxVars
    \/ \E i \in Slots, res \in {"ok", "undeleted", "failed"} : pf_senddoc(i, res)
           /\ UNCHANGED auxVars
    \/ \E i \in Slots : pf_except(i) /\ UNCHANGED auxVars

\* the sweep runs while one forwarded video goes through the pipeline
SweepNext ==
    \/ periodic_cleanup /\ UNCHANGED <<convVars, nameVars, histVars, extButFile>>
    \/ hour_passes /\ UNCHANGED <<convVars, nameVars, histVars, extButFile>>
    \/ \E uid \in Users, inp \in Inputs \ Documents, sent \in BOOLEAN :
           forwarded_file_start(uid, 1, inp, sent) /\ UNCHANGED capVars /\ Stamped /\ UNCHANGED <<convVars, nameVars, histVars, extVars>>
    \/ \E ok \in BOOLEAN :
           forwarded_file_download(1, ok) /\ UNCHANGED capVars /\ Stamped /\ UNCHANGED <<convVars, nameVars, histVars, extVars>>
    \/ pf_start(1) /\ Stamped /\ UNCHANGED <<convVars, nameVars, histVars, extVars>>
    \/ \E res \in {"ok", "failed", "unsent"}, left \in BOOLEAN :
           pf_convert(1, res, left) /\ Stamped /\ UNCHANGED <<convVars, nameVars, histVars, extVars>>
    \/ \E res \in {"ok", "failed"} : pf_send(1, res) /\ Stamped /\ UNCHANGED <<convVars, nameVars, histVars, extVars>>
    \/ pf_backoff(1) /\ Stamped /\ UNCHANGED <<convVars, nameVars, histVars, extVars>>
    \/ pf_except(1) /\ Stamped /\ UNCHANGED <<convVars, nameVars, histVars, extVars>>

\* one forwarded video that needs the conversion, with convert_to_mkv run
\* phase by phase
NeedsConversion == { inp \in Inputs \ Documents : inp.ext \notin {"mp4", "mkv"} }

ConvertNext ==
    \/ \E uid \in Users, i \in Slots, inp \in NeedsConversion, sent \in BOOLEAN :
           forwarded_file_start(uid, i, inp, sent) /\ UNCHANGED <<capVars, auxVars>>
    \/ \E i \in Slots, ok \in BOOLEAN :
           forwarded_file_download(i, ok) /\ UNCHANGED <<capVars, auxVars>>
    \/ \E i \in Slots : pf_start(i) /\ UNCHANGED auxVars
    \/ \E i \in Slots : convert_call(i)
    \/ \E exit \in ExitCodes, out \in OutStates : convert_phaseA(exit, out)
    \/ \E exit \in ExitCodes, out \in OutStates : convert_phaseB(exit, out)
    \/ convert_check
    \/ convert_except
    \/ \E i \in Slots : convert_return(i)
    \/ \E i \in Slots : conv.pc = "idle" /\ pf_convert(i, "unsent", FALSE) /\ UNCHANGED auxVars
    \/ \E i \in Slots, res \in {"ok", "undeleted", "failed"} : pf_send(i, res)
           /\ UNCHANGED auxVars
    \/ \E i \in Slots : pf_backoff(i) /\ UNCHANGED auxVars
    \/ \E i \in Slots : pf_except(i) /\ UNCHANGED auxVars

\* forwarded files and single-track files of the track-change mode, with the
\* staging paths their handlers build from the uid, the clock and the name
NamesNext ==
    \/ tick
    \/ \E uid \in Users : toggle_audio_change_mode(uid)
           /\ UNCHANGED <<capVars, auxVars>>
    \/ \E uid \in Users, i \in Slots, inp \in Inputs, sent \in BOOLEAN, stem \in Stems :
           /\ forwarded_file_start(uid, i, inp, sent)
           /\ Named(i, [NoNames EXCEPT
                           !["in"] = StagingPath("forwarded", uid, now, stem, inp.ext)])
           /\ UNCHANGED capVars
    \/ \E i \in Slots, ok \in BOOLEAN :
           forwarded_file_download(i, ok) /\ Named(i, names[i]) /\ UNCHANGED capVars
    \/ \E uid \in Users, i \in Slots, stem \in Stems :
           /\ audio_change_start(uid, i)
           /\ Named(i, [NoNames EXCEPT
                           !["in"] = StagingPath("audio_change", uid, now, stem, "mkv")])
           /\ UNCHANGED capVars
    \/ \E i \in Slots, ok \in BOOLEAN, sent \in BOOLEAN :
           /\ audio_change_finish(i, ok, TracksOf(<<2>>), sent)
           /\ Named(i, names[i])
           /\ UNCHANGED capVars
    \/ \E i \in Slots, res \in {"ok", "failed"} :
           /\ handle_audio_remux(i, res)
           /\ Named(i, [names[i] EXCEPT
                           !["out"] = StagingPath("remux", op[i].uid, now,
                                                  names[i]["in"].stem, "mkv")])
           /\ UNCHANGED capVars
    \/ \E i \in Slots : pf_start(i) /\ Named(i, names[i])
    \/ \E i \in Slots, res \in {"ok", "failed", "unsent"}, left \in BOOLEAN :
           pf_convert(i, res, left) /\ Named(i, ConversionNames(i, res))
    \/ \E i \in Slots, res \in {"ok", "failed"} : pf_send(i, res) /\ Named(i, names[i])
    \/ \E i \in Slots : pf_backoff(i) /\ Named(i, names[i])
    \/ \E i \in Slots, res \in {"ok", "failed"} : pf_senddoc(i, res) /\ Named(i, names[i])
    \/ \E i \in Slots : pf_except(i) /\ Named(i, names[i])

\* the replies the owner sends while selections are pending: one index, two
\* indices, no index
ShortReplies == { <<<<"1">>>>, <<<<"2">>, <<"1">>>>, <<<<"x">>>> }

\* a step that chooses no staging path: the paths of ended operations are
\* forgotten
NamesFollow ==
    names' = [i \in Slots |-> IF op'[i].pc = "done" THEN NoNames ELSE names[i]]

\* history of a text message: a replied-to id no branch took up is noted in
\* ignored
TextNoted(uid, reply_to) ==
    /\ ignored' = IF /\ text_route(uid, reply_to) = "other"
                     /\ reply_to \in Slots
                     /\ reply_to \notin DOMAIN PENDING_AUDIO_ORDERS
                  THEN ignored \cup {reply_to} ELSE ignored
    /\ NamesFollow
    /\ UNCHANGED <<now, sweepVars, convVars, extVars>>

\* the track-change mode with replies to pending, ended and unknown prompts
RepliesNext ==
    \/ tick
    \/ \E uid \in Users : toggle_audio_change_mode(uid) /\ UNCHANGED <<capVars, auxVars>>
    \/ \E uid \in Users, i \in Slots, stem \in Stems :
           /\ audio_change_start(uid, i)
           /\ names' = [names EXCEPT ![i] =
                            [NoNames EXCEPT
                                !["in"] = StagingPath("audio_change", uid, now, stem, "mkv")]]
           /\ UNCHANGED <<capVars, now, sweepVars, convVars, histVars, extVars>>
    \/ \E i \in Slots, ok \in BOOLEAN, tracks \in TrackLists, sent \in BOOLEAN :
           /\ audio_change_finish(i, ok, tracks, sent)
           /\ NamesFollow
           /\ UNCHANGED <<capVars, now, sweepVars, convVars, histVars, extVars>>
    \/ \E uid \in Users : set_caption_prompt(uid) /\ UNCHANGED <<opVars, auxVars>>
    \/ \E uid \in Users, text \in ShortReplies, reply_to \in 0..MaxOps :
           text_handler(uid, text, reply_to) /\ TextNoted(uid, reply_to)
    \/ \E uid \in Users, mid \in 0..MaxOps :
           /\ CanPress(uid, mid) /\ cancel_task_cb(uid, mid)
           /\ NamesFollow
           /\ UNCHANGED <<capVars, now, sweepVars, convVars, histVars, extVars>>

\* the template and the files of the retry runs: ".mp4" videos that need no
\* conversion, captioned "Episode [01]"
RetryTemplate == <<Lit("Episode"), Ctr("none", <<"0", "1">>)>>

Mp4Videos == { inp \in Inputs : inp.video /\ inp.ext = "mp4" /\ ~inp.codec }

\* forwarded videos are uploaded, with their retries, under a caption template
RetryNext ==
    \/ \E uid \in Users : set_caption_prompt(uid) /\ UNCHANGED <<opVars, auxVars>>
    \/ \E uid \in Users :
           text_handler_set_caption(uid, RetryTemplate) /\ UNCHANGED <<opVars, auxVars>>
    \/ \E uid \in Users, i \in Slots, inp \in Mp4Videos, sent \in BOOLEAN :
           forwarded_file_start(uid, i, inp, sent) /\ UNCHANGED <<capVars, auxVars>>
    \/ \E i \in Slots, ok \in BOOLEAN :
           forwarded_file_download(i, ok) /\ UNCHANGED <<capVars, auxVars>>
    \/ \E i \in Slots : pf_start(i) /\ UNCHANGED auxVars
    \/ \E i \in Slots : cap_cycle(i) /\ UNCHANGED auxVars
    \/ \E i \in Slots : cap_counters(i) /\ UNCHANGED auxVars
    \/ \E i \in Slots : cap_render(i) /\ UNCHANGED auxVars
    \/ \E i \in Slots : pf_convert(i, "ok", FALSE) /\ UNCHANGED auxVars
    \/ \E i \in Slots, res \in {"ok", "failed"} : pf_send(i, res) /\ UNCHANGED auxVars
    \/ \E i \in Slots : pf_backoff(i) /\ UNCHANGED auxVars
    \/ \E i \in Slots : pf_except(i) /\ UNCHANGED auxVars

\* what the mode commands leave alone beside the caption and operation state
auxButModes == <<sweepVars, convVars, nameVars, histVars, thumbVars, postVars, dlVars, errVars>>

\* what an error report leaves alone
auxButErr == <<sweepVars, convVars, nameVars, histVars, modeVars, thumbVars, postVars, dlVars>>

\* the track lists of the files sent while the modes are switched
ModeTracks == { TracksOf(<<>>), TracksOf(<<2, 4>>) }

\* documents arrive, forwarded or direct, while the owner switches the two
\* modes and saves a caption
ModesNext ==
    \/ \E uid \in Users : toggle_audio_change_mode(uid) /\ UNCHANGED <<capVars, auxVars>>
    \/ \E uid \in Users :
           toggle_edit_caption_mode(uid) /\ UNCHANGED <<capVars, opVars, auxButModes>>
    \/ \E uid \in Users : set_caption_prompt(uid) /\ UNCHANGED <<opVars, auxVars>>
    \/ \E uid \in Users :
           text_handler_set_caption(uid, RetryTemplate) /\ UNCHANGED <<opVars, auxVars>>
    \/ \E uid \in Users, i \in Slots, inp \in Documents, forwarded \in BOOLEAN,
          sent \in BOOLEAN :
           forwarded_file_or_direct_file(uid, i, inp, forwarded, sent) /\ UNCHANGED auxVars
    \/ \E i \in Slots, ok \in BOOLEAN, tracks \in ModeTracks, sent \in BOOLEAN :
           audio_change_finish(i, ok, tracks, sent) /\ UNCHANGED <<capVars, auxVars>>
    \/ \E i \in Slots : cap_cycle(i) /\ UNCHANGED auxVars
    \/ \E i \in Slots : cap_counters(i) /\ UNCHANGED auxVars
    \/ \E i \in Slots : cap_render(i) /\ UNCHANGED auxVars
    \/ \E i \in Slots, sent \in BOOLEAN :
           caption_only_status(i, sent) /\ UNCHANGED <<capVars, auxVars>>
    \/ \E i \in Slots, ok \in BOOLEAN :
           caption_only_download(i, ok, TRUE) /\ UNCHANGED <<capVars, auxVars>>
    \/ \E i \in Slots, res \in {"ok", "undeleted", "failed"} :
           caption_only_send(i, res) /\ UNCHANGED <<capVars, auxVars>>
    \/ \E i \in Slots : caption_only_except(i) /\ UNCHANGED <<capVars, auxVars>>
    \/ \E i \in Slots, ok \in BOOLEAN :
           forwarded_file_download(i, ok) /\ UNCHANGED <<capVars, auxVars>>
    \/ \E i \in Slots : pf_start(i) /\ UNCHANGED auxVars
    \/ \E i \in Slots, res \in {"ok", "undeleted", "failed"} : pf_senddoc(i, res)
           /\ UNCHANGED auxVars
    \/ \E i \in Slots, reported \in BOOLEAN :
           pf_except_report(i, reported) /\ UNCHANGED auxButErr

\* the track-change mode with callbacks and messages of every user: a
\* cancel_task callback carries the id of any message, whoever sends it
PressNext ==
    \/ \E uid \in Users : start_handler(uid) /\ UNCHANGED <<capVars, opVars, auxButModes>>
    \/ \E uid \in Users : toggle_audio_change_mode(uid) /\ UNCHANGED <<capVars, auxVars>>
    \/ \E uid \in Users, i \in Slots : audio_change_start(uid, i) /\ UNCHANGED <<capVars, auxVars>>
    \/ \E i \in Slots, ok \in BOOLEAN, tracks \in ModeTracks, sent \in BOOLEAN :
           audio_change_finish(i, ok, tracks, sent) /\ UNCHANGED <<capVars, auxVars>>
    \/ \E uid \in Users, text \in ShortReplies, reply_to \in 0..MaxOps :
           text_handler(uid, text, reply_to) /\ UNCHANGED auxVars
    \/ \E uid \in Users, mid \in 0..MaxOps :
           cancel_task_cb(uid, mid) /\ UNCHANGED <<capVars, auxVars>>
    \/ \E i \in Slots, res \in {"ok", "failed"} :
           handle_audio_remux(i, res) /\ UNCHANGED <<capVars, auxVars>>
    \/ \E i \in Slots : pf_start(i) /\ UNCHANGED auxVars
    \/ \E i \in Slots : pf_convert(i, "ok", FALSE) /\ UNCHANGED auxVars
    \/ \E i \in Slots, res \in {"ok", "failed"} : pf_send(i, res) /\ UNCHANGED auxVars
    \/ \E i \in Slots : pf_backoff(i) /\ UNCHANGED auxVars
    \/ \E i \in Slots : pf_except(i) /\ UNCHANGED auxVars

SpecCaption == Init /\ [][CaptionNext]_vars

SpecUpload == Init /\ [][UploadNext]_vars

SpecTracks == Init /\ [][TracksNext]_vars

SpecOps == Init /\ [][OpsNext]_vars

SpecSweep == Init /\ [][SweepNext]_vars

SpecConvert == Init /\ [][ConvertNext]_vars

SpecNames == Init /\ [][NamesNext]_vars

SpecReplies == Init /\ [][RepliesNext]_vars

SpecRetry == Init /\ [][RetryNext]_vars

\* what the thumbnail and post handlers leave alone
auxButPhoto == <<sweepVars, convVars, nameVars, histVars, modeVars, dlVars, errVars>>

\* the results of a photo: saved, the download raised, a later call raised
PhotoResults == {"ok", "early", "late"}

\* the thumbnail commands, the post dialogue and the photos they wait for,
\* while the hours pass and the sweep runs
PhotoNext ==
    \/ \E uid \in Users, arg \in {"photo", "time", "bad"} :
           setthumb_prompt(uid, arg) /\ UNCHANGED <<capVars, opVars, postVars, auxButPhoto>>
    \/ \E uid \in Users :
           del_thumb_cmd(uid) /\ UNCHANGED <<capVars, opVars, postVars, auxButPhoto>>
    \/ \E uid \in Users :
           toggle_create_post_mode(uid)
               /\ UNCHANGED <<capVars, opVars, thumbVars, auxButPhoto>>
    \/ \E uid \in Users, i \in Slots :
           photo_handler_start(uid, i) /\ UNCHANGED <<capVars, opVarsButOp, auxButPhoto>>
    \/ \E i \in Slots, res \in PhotoResults, reported \in BOOLEAN :
           photo_handler_finish(i, res, reported)
               /\ UNCHANGED <<capVars, opVarsButOp, auxButPhoto>>
    \/ \E uid \in Users, text \in ShortReplies, res \in {"ok", "edit_failed", "unreported"} :
           /\ text_handler(uid, text, 0)
           /\ text_handler_post(uid, 0, res)
           /\ UNCHANGED <<thumbVars, auxButPhoto>>
    \/ periodic_cleanup /\ UNCHANGED <<convVars, nameVars, histVars, extButFile>>
    \/ hour_passes /\ UNCHANGED <<convVars, nameVars, histVars, extButFile>>

SpecPhoto == Init /\ [][PhotoNext]_vars

\* what download_stream leaves alone
auxButDl == <<sweepVars, convVars, nameVars, histVars, modeVars, thumbVars, postVars, errVars>>

\* one call of download_stream over every sequence of chunks
DownloadNext ==
    \/ download_stream_open /\ UNCHANGED <<capVars, opVars, auxButDl>>
    \/ \E len \in ChunkLens, set \in BOOLEAN :
           download_stream_chunk(len, set) /\ UNCHANGED <<capVars, opVars, auxButDl>>
    \/ download_stream_end /\ UNCHANGED <<capVars, opVars, auxButDl>>
    \/ download_stream_raise /\ UNCHANGED <<capVars, opVars, auxButDl>>

SpecDownload == Init /\ [][DownloadNext]_vars

SpecModes == Init /\ [][ModesNext]_vars

SpecPress == Init /\ [][PressNext]_vars

-----------------------------------------------------------------------------
(* Claims about the caption engine, checked under SpecCaption.             *)
(* k is USER_COUNTERS[u].uploads: the number of expansions since the       *)
(* owner's counter state was last reset; while k >= 1, last_caption[u] is  *)
(* the result of expansion k of the saved template.                        *)

Expanded(u) == USER_COUNTERS[u].uploads >= 1 /\ USER_CAPTIONS[u] # NoCaption

CounterIdx(tpl) == { i \in 1..Len(tpl) : tpl[i].k = "ctr" }

CondIdx(tpl) == { i \in 1..Len(tpl) : tpl[i].k = "cond" }

\* C1: with one counter placeholder [N] of width W and no cycle, expansion k
\* renders the counter as N + (k - 1), zero-padded to W digits.
C1_CounterRendersNPlusK ==
    \A u \in Users :
        LET tpl == USER_CAPTIONS[u]
            k   == USER_COUNTERS[u].uploads
            out == last_caption[u]
        IN  (Expanded(u) /\ ~HasCycle(tpl) /\ Cardinality(Matches(tpl)) = 1) =>
                \A i \in CounterIdx(tpl) :
                    /\ out[i].k = "num"
                    /\ IsDigits(out[i].d)
                    /\ ParseDigits(out[i].d) = ParseDigits(tpl[i].d) + (k - 1)
                    /\ Len(out[i].d) >= Len(tpl[i].d)
                    /\ (Len(out[i].d) > Len(tpl[i].d) => out[i].d[1] # "0")

\* the third expansion of "[01] Episode" is "03 Episode"
C1_Witness ==
    /\ USER_CAPTIONS[ADMIN_ID] = <<Ctr("none", <<"0", "1">>), Lit("Episode")>>
    /\ USER_COUNTERS[ADMIN_ID].uploads = 3
    /\ last_caption[ADMIN_ID] = <<Num("none", <<"0", "3">>), Lit("Episode")>>

\* C2: with a cycle of C options, every counter advances by 1 exactly at the
\* start of each new lap of C expansions and is constant within a lap:
\* expansion k renders N + (k - 1) div C.
C2_CounterAdvancesPerLap ==
    \A u \in Users :
        LET tpl == USER_CAPTIONS[u]
            k   == USER_COUNTERS[u].uploads
            out == last_caption[u]
        IN  (Expanded(u) /\ HasCycle(tpl) /\ CycleOptions(FirstCycle(tpl)) # <<>>) =>
                \A i \in CounterIdx(tpl) :
                    /\ out[i].k = "num"
                    /\ ParseDigits(out[i].d) =
                           ParseDigits(tpl[i].d) + ((k - 1) \div Len(CycleOptions(FirstCycle(tpl))))

\* C3: expansion k replaces the cycle placeholder by options[(k-1) mod C]
\* (options counted from 0), wrapping to the first option after the last.
C3_CycleSelectsOption ==
    \A u \in Users :
        LET tpl == USER_CAPTIONS[u]
            k   == USER_COUNTERS[u].uploads
            out == last_caption[u]
        IN  (Expanded(u) /\ HasCycle(tpl) /\ CycleOptions(FirstCycle(tpl)) # <<>>) =>
                LET options == CycleOptions(FirstCycle(tpl))
                    first   == CHOOSE i \in CycleIdx(tpl) : \A j \in CycleIdx(tpl) : i <= j
                IN  out[first] = Lit(options[((k - 1) % Len(options)) + 1])

\* the cycle has wrapped: expansion 4 of a 3-option cycle shows the first option again
C3_Witness ==
    /\ USER_CAPTIONS[ADMIN_ID] = <<Cyc(<<"HD", "", "SD", "4K">>), Ctr("none", <<"0", "1">>)>>
    /\ USER_COUNTERS[ADMIN_ID].uploads = 4
    /\ last_caption[ADMIN_ID][1] = Lit("HD")

\* C4 as stated: every conditional placeholder [TEXT (M)] renders TEXT iff the
\* minimum counter value (0 without counters) equals M and renders empty
\* otherwise, a non-numeric M included.
C4_ConditionalAsStated ==
    \A u \in Users :
        LET tpl == USER_CAPTIONS[u]
            dc  == USER_COUNTERS[u].dynamic_counters
            out == last_caption[u]
            vals == { dc[key].value : key \in DOMAIN dc }
            episode == IF vals = {} THEN 0 ELSE MinOf(vals)
        IN  Expanded(u) =>
                \A i \in CondIdx(tpl) :
                    tpl[i].c =>
                        out[i] = IF PyIntOk(tpl[i].m) /\ PyInt(tpl[i].m) = episode
                                 THEN Lit(tpl[i].s)
                                 ELSE Lit("")

\* C4 (amended): a conditional placeholder written exactly [TEXT (M)] whose M
\* parses as an integer renders TEXT iff the minimum counter value (0 without
\* counters) equals M and renders empty otherwise; one whose M is not an
\* integer is left in the text unchanged.
C4_ConditionalAmended ==
    \A u \in Users :
        LET tpl == USER_CAPTIONS[u]
            dc  == USER_COUNTERS[u].dynamic_counters
            out == last_caption[u]
            vals == { dc[key].value : key \in DOMAIN dc }
            episode == IF vals = {} THEN 0 ELSE MinOf(vals)
        IN  Expanded(u) =>
                \A i \in CondIdx(tpl) :
                    tpl[i].c =>
                        IF PyIntOk(tpl[i].m)
                        THEN out[i] = IF PyInt(tpl[i].m) = episode THEN Lit(tpl[i].s) ELSE Lit("")
                        ELSE out[i] = tpl[i]

\* two counters at 2 and 10: [End (02)] renders "End"
C4_Witness ==
    LET tpl == USER_CAPTIONS[ADMIN_ID]
        dc  == USER_COUNTERS[ADMIN_ID].dynamic_counters
    IN  /\ Expanded(ADMIN_ID)
        /\ Cardinality(DOMAIN dc) = 2
        /\ \E i \in CondIdx(tpl) :
               /\ tpl[i] = Cond("End", <<"0", "2">>, TRUE)
               /\ last_caption[ADMIN_ID][i] = Lit("End")
               /\ { dc[key].value : key \in DOMAIN dc } = {2, 10}


-----------------------------------------------------------------------------
(* Claims about the track-order replies, checked under SpecTracks.          *)

\* every token is written with decimal digits only and names a listed track
AllIndices(text, n) ==
    \A k \in 1..Len(text) : IsDigits(text[k]) /\ ParseDigits(text[k]) \in 1..n

\* the audio map the reply asks for: the stream index of each named track
ExpectedMap(tracks, text) ==
    [k \in 1..Len(text) |-> tracks[ParseDigits(text[k])].stream_index]

\* text_handler, given this reply to prompt p, starts the remux with ExpectedMap
Commits(uid, text, p) ==
    ENABLED ( /\ text_handler(uid, text, p)
              /\ op'[p].kind = "remux" /\ op'[p].pc = "rx_start"
              /\ op'[p].map = ExpectedMap(PENDING_AUDIO_ORDERS[p].tracks, text)
              /\ p \notin DOMAIN PENDING_AUDIO_ORDERS' )

\* C5: a rejected reply to the prompt of a pending selection leaves the entry
\* unchanged under the same prompt id, keeps its staged file and starts no remux.
C5_RejectedReplyKeepsPending ==
    [][ \A p \in DOMAIN PENDING_AUDIO_ORDERS : \A uid \in Users : \A text \in Replies :
            ( /\ text_route(uid, p) = "order"
              /\ parse_audio_order(PENDING_AUDIO_ORDERS[p].tracks, text).res # "commit"
              /\ text_handler(uid, text, p) )
            => ( /\ p \in DOMAIN PENDING_AUDIO_ORDERS'
                 /\ PENDING_AUDIO_ORDERS'[p] = PENDING_AUDIO_ORDERS[p]
                 /\ PENDING_AUDIO_ORDERS[p].path \in files'
                 /\ op'[p] = op[p] ) ]_vars

\* C6 as stated: for n >= 2 listed tracks, every non-empty list of integers
\* in [1, n] is committed and the remux gets exactly the named tracks' stream
\* indices, in reply order.
C6_AnyInRangeListCommitted ==
    \A p \in DOMAIN PENDING_AUDIO_ORDERS :
        LET e == PENDING_AUDIO_ORDERS[p]
            n == Len(e.tracks)
        IN  \A text \in Replies :
                (n >= 2 /\ AllIndices(text, n)) => Commits(e.uid, text, p)

\* C6 amended: the same, for replies of exactly n indices when n < 5 and of
\* at most n indices when n >= 5, while no set-caption request of the owner
\* is pending.
C6_CountedListCommitted ==
    \A p \in DOMAIN PENDING_AUDIO_ORDERS :
        LET e == PENDING_AUDIO_ORDERS[p]
            n == Len(e.tracks)
        IN  \A text \in Replies :
                ( /\ n >= 2
                  /\ AllIndices(text, n)
                  /\ IF n < 5 THEN Len(text) = n ELSE Len(text) <= n
                  /\ e.uid \notin SET_CAPTION_REQUEST )
                => Commits(e.uid, text, p)

\* five tracks with stream indices 1,3,4,5,7 and the reply "2,1": the remux
\* is started with the map 3,1
C6_Witness ==
    /\ op[1].kind = "remux" /\ op[1].pc = "rx_start"
    /\ op[1].tracks = TracksOf(<<1, 3, 4, 5, 7>>)
    /\ op[1].map = <<3, 1>>
    /\ 1 \notin DOMAIN PENDING_AUDIO_ORDERS

-----------------------------------------------------------------------------
(* Claims about cancellation and the upload pipeline, checked under SpecOps. *)

\* C7: a cancel action of an owner sets the token of every operation of
\* that owner that is in flight at that moment.  Stated for the operations
\* that registered a token: once such an operation has been running at a
\* cancel action, its event is set.
C7_CancelSetsEveryToken ==
    \A i \in asked : op[i].kind \in {"fwd", "audio"} => OwnEvent(i) \in events_set

\* C8: an .mp4 source that carries the disallowed audio codec is delivered
\* as .mkv; an .mp4 source without it is delivered as .mp4.
C8_PlannerPicksContainer ==
    \A i \in Slots :
        (op[i].pc = "pf_send" /\ op[i].inp.ext = "mp4") =>
            op[i].fext = (IF op[i].inp.codec THEN "mkv" ELSE "mp4")

\* C9: a failed delivery attempt is retried, for videos and documents alike:
\* a run ends in failure only after 3 attempts.
C9_FailureAfterThreeAttempts ==
    \A i \in Slots :
        (op[i].pc = "pf_except" /\ op[i].attempts >= 1 /\ ~op[i].delivered) =>
            op[i].attempts = MAX_RETRIES

\* C10: when the operation's cancel token is set while the retry loop waits
\* in a backoff, no further delivery attempt is made.
C10_CancelAbortsBackoff ==
    [][ \A i \in Slots :
            (op[i].pc = "pf_backoff" /\ op[i].hit) => op'[i].pc # "pf_send" ]_vars

-----------------------------------------------------------------------------
(* Claims about the staging directory and the pipeline's results, checked   *)
(* under SpecOps and SpecTracks.                                            *)

\* C11: when a pipeline operation has ended, however it ended, none of its
\* temporary artifacts (the downloaded input, the converted or remuxed
\* output, the generated thumbnail) is left in the staging directory.
C11_NoArtifactAfterEnd ==
    \A i \in Slots : op[i].pc = "done" =>
        \A f \in Artifacts : Path(i, f) \notin files

-----------------------------------------------------------------------------
(* Claims about captions of uploads, checked under SpecUpload.              *)

\* the text and state of the first and of the second of two expansions of
\* tpl made one after the other on a fresh state
Sequential1(tpl) == process_dynamic_caption(FreshCounters, tpl)

Sequential2(tpl) == process_dynamic_caption(Sequential1(tpl).state, tpl)

\* both uploads have their caption, and both expansions ran wholly after the
\* last reset of the owner's state, on the template that is set now
BothExpanded(i, j) ==
    /\ i # j
    /\ op[i].uid = op[j].uid
    /\ op[i].caption.has /\ op[j].caption.has
    /\ op[i].tpl = USER_CAPTIONS[op[i].uid]
    /\ op[j].tpl = USER_CAPTIONS[op[i].uid]
    /\ USER_COUNTERS[op[i].uid].uploads = 2

\* C12: expansions of one owner are serialized: two expansions issued by
\* concurrently running uploads leave the state that two sequential
\* expansions leave, and return the two consecutive renderings.
C12_ExpansionsSerialized ==
    \A i, j \in Slots : BothExpanded(i, j) =>
        LET tpl == op[i].tpl
        IN  /\ USER_COUNTERS[op[i].uid] = Sequential2(tpl).state
            /\ {op[i].caption.text, op[j].caption.text}
                   = {Sequential1(tpl).text, Sequential2(tpl).text}

-----------------------------------------------------------------------------
(* Claims about track-change mode, checked under SpecTracks.                *)

\* C13: when an owner turns track-change mode off, by the command or by the
\* toggle button, every pending track selection of that owner is destroyed
\* and the file each of them holds is deleted.
C13_ModeOffDestroysPending ==
    [][ \A uid \in Users :
          (uid \in MKV_AUDIO_CHANGE_MODE /\ uid \notin MKV_AUDIO_CHANGE_MODE') =>
              \A p \in DOMAIN PENDING_AUDIO_ORDERS :
                  PENDING_AUDIO_ORDERS[p].uid = uid =>
                      /\ p \notin DOMAIN PENDING_AUDIO_ORDERS'
                      /\ PENDING_AUDIO_ORDERS[p].path \notin files' ]_vars

Arrival(i, tracks) ==
    IF Len(tracks) = 0
    THEN /\ op'[i].pc = "done"
         /\ Path(i, "in") \notin files'
         /\ PENDING_AUDIO_ORDERS' = PENDING_AUDIO_ORDERS
    ELSE IF Len(tracks) = 1
    THEN /\ PENDING_AUDIO_ORDERS' = PENDING_AUDIO_ORDERS
         /\ op'[i].kind = "remux" /\ op'[i].pc = "rx_start"
         /\ op'[i].map = <<tracks[1].stream_index>>
         /\ Path(i, "in") \in files'
    ELSE /\ i \notin DOMAIN PENDING_AUDIO_ORDERS
         /\ PENDING_AUDIO_ORDERS' =
                Put(PENDING_AUDIO_ORDERS, i,
                    [uid |-> op[i].uid, path |-> Path(i, "in"), tracks |-> tracks])
         /\ Path(i, "in") \in files'
         /\ op'[i].kind = "audio" /\ op'[i].pc = "listed"

\* a listed operation becomes a remux only by a reply to its prompt
RemuxOnlyByReply ==
    \A i \in Slots :
        (op[i].pc = "listed" /\ op'[i].kind = "remux") =>
            \E uid \in Users, text \in Replies : text_handler(uid, text, i)

-----------------------------------------------------------------------------
(* Claims about the upload pipeline, checked under SpecOps.                 *)

\* C16: a failed standardization is never fatal: when the conversion to MKV
\* fails the original file goes on to the upload, and when the audio remux
\* fails the operation goes on to upload the original as well instead of
\* ending.
C16_FailedStandardizationDeliversOriginal ==
    [][ \A i \in Slots :
          /\ (\E left \in BOOLEAN : pf_convert(i, "failed", left)) =>
                 /\ op'[i].pc = "pf_send" /\ op'[i].upload = "in"
                 /\ Path(i, op[i].pin) \in files'
          /\ handle_audio_remux(i, "failed") =>
                 /\ op'[i].pc = "pf_start" /\ op'[i].pin = "in"
                 /\ Path(i, "in") \in files' ]_vars

\* C20: a cancel token lives exactly as long as its operation: while an
\* operation that registered a token is in flight its token is in the owner's
\* registry, because an operation that finishes unregisters its own token
\* only; and a finished operation has no token there.
C20_TokenLivesWithOperation ==
    \A i \in Slots :
        /\ (Running(op[i]) /\ op[i].kind \in {"fwd", "audio"}) =>
               OwnEvent(i) \in Elems(TASKS[op[i].uid])
        /\ (op[i].pc = "done" /\ op[i].delivered) =>
               \A u \in Users : OwnEvent(i) \notin Elems(TASKS[u])

-----------------------------------------------------------------------------
(* Claims about captions and the owner's counter state, checked under       *)
(* SpecUpload.                                                              *)

\* the final file name, as a caption text
FinalName(o) == <<Lit("file"), Lit(o.fext)>>

\* C17: the caption a file is delivered with is the expansion of the owner's
\* template when there is one, and the final file name when there is none.
C17_CaptionOfDelivery ==
    \A i \in Slots : op[i].pc \in {"pf_send", "pf_senddoc"} =>
        IF op[i].tpl # NoCaption
        THEN op[i].caption.has
        ELSE op[i].caption = [has |-> TRUE, text |-> FinalName(op[i])]

\* C18: the counter state of an owner is reset by the caption commands only,
\* and after a reset the next expansion renders every counter at its literal
\* value and the cycle at its first option: the caption of the expansion that
\* found no counter state is the first sequential rendering of its template.
C18_FirstExpansionAfterSet ==
    \A i \in Slots : (op[i].caption.has /\ op[i].first) =>
        op[i].caption.text = Sequential1(op[i].tpl).text

-----------------------------------------------------------------------------
(* Claims about the retention sweep, checked under SpecSweep.               *)

\* C19: no staged file outlives the retention window: whatever operation
\* wrote a file and however that operation ended, no file in TMP is older
\* than 3 days plus the hour between two passes of the sweep.
C19_NoFileOutlivesRetention ==
    \A p \in files : age[p] <= RETENTION + 1

\* the operation has ended, its converted output was left behind and the
\* sweep has unlinked it
C19_Witness ==
    /\ op[1].pc = "done"
    /\ Path(1, "mkv") \in swept
    /\ Path(1, "mkv") \notin files


-----------------------------------------------------------------------------
(* Claims about the track-order reply, checked under SpecTracks. *)

\* every comma-separated token of the reply parses as an integer
AllTokensParse(text) == \A k \in 1..Len(text) : PyIntOk(text[k])

\* C21: a track-order reply is committed only if every comma-separated token
\* parses as an integer; a reply with a token that does not parse is rejected
\* and starts no remux.
C21_NonIntegerTokenRejected ==
    [][ \A p \in DOMAIN PENDING_AUDIO_ORDERS : \A uid \in Users : \A text \in Replies :
            ( /\ text_route(uid, p) = "order"
              /\ ~AllTokensParse(text)
              /\ text_handler(uid, text, p) )
            => op'[p].kind # "remux" ]_vars


\* the indices a reply names: its tokens made of digits only (line 786)
NamedIndices(text) == SelectSeq(text, str_isdigit)

\* a step of text_handler with this reply commits the selection of prompt p
CommitStep(uid, text, p) ==
    /\ text_handler(uid, text, p)
    /\ op[p].kind = "audio" /\ op'[p].kind = "remux"

\* the count rule seen from a committed reply: between 1 and trackCount
\* indices, exactly trackCount below five tracks, and the remux keeps the
\* named tracks only, in reply order
CountRuleOfCommits ==
    \A p \in DOMAIN PENDING_AUDIO_ORDERS : \A uid \in Users : \A text \in Replies :
        CommitStep(uid, text, p) =>
            LET tracks == PENDING_AUDIO_ORDERS[p].tracks
                n      == Len(tracks)
                named  == NamedIndices(text)
                r      == Len(named)
            IN  /\ r \in 1..n
                /\ n < 5 => r = n
                /\ Len(op'[p].map) = r
                /\ \A k \in 1..r : /\ PyIntOk(named[k]) /\ PyInt(named[k]) \in 1..n
                                   /\ op'[p].map[k] = tracks[PyInt(named[k])].stream_index

\* a reply of 1..trackCount valid indices to the prompt of a file with five
\* or more tracks
SubsetReply(p, text) ==
    LET n == Len(PENDING_AUDIO_ORDERS[p].tracks)
    IN  n >= 5 /\ Len(text) \in 1..n /\ AllIndices(text, n)

\* C22 as stated: below five tracks a reply is committed only with exactly
\* trackCount indices; a reply of more than trackCount indices is never
\* committed; with five or more tracks every reply of 1..trackCount valid
\* indices is committed and only the named tracks are kept.
C22_CountRuleAsStated ==
    /\ [][CountRuleOfCommits]_vars
    /\ [](\A p \in DOMAIN PENDING_AUDIO_ORDERS : \A text \in Replies :
              SubsetReply(p, text) => Commits(PENDING_AUDIO_ORDERS[p].uid, text, p))

\* C22 amended: the same, the commitment of a subset reply being promised
\* only while no set-caption request of the owner is pending.
C22_CountRuleInOrderBranch ==
    /\ [][CountRuleOfCommits]_vars
    /\ [](\A p \in DOMAIN PENDING_AUDIO_ORDERS : \A text \in Replies :
              ( /\ SubsetReply(p, text)
                /\ PENDING_AUDIO_ORDERS[p].uid \notin SET_CAPTION_REQUEST )
              => Commits(PENDING_AUDIO_ORDERS[p].uid, text, p))

\* five tracks with stream indices 1,3,4,5,7 and the reply "2,1,2": three
\* tracks are kept, with the map 3,1,3
C22_Witness ==
    /\ op[1].kind = "remux" /\ op[1].pc = "rx_start"
    /\ op[1].tracks = TracksOf(<<1, 3, 4, 5, 7>>)
    /\ op[1].map = <<3, 1, 3>>
    /\ 1 \notin DOMAIN PENDING_AUDIO_ORDERS


-----------------------------------------------------------------------------
(* Claims about cancellation between phases, checked under SpecOps. *)

\* C23: an operation whose cancel token is set before its delivery step
\* begins never delivers: the result of the phases it already completed
\* (download, conversion) is discarded.
C23_NoDeliveryOnceTokenSet ==
    [][ \A i \in Slots :
            ( /\ op[i].kind = "fwd"
              /\ OwnEvent(i) \in events_set
              /\ ~op[i].delivered )
            => ~op'[i].delivered ]_vars


-----------------------------------------------------------------------------
(* Claims about the conversion to MKV, checked under SpecConvert. *)

\* the stream-copy run failed: it exited non-zero, timed out, or exited zero
\* and left the output missing or empty
PhaseAFailed == conv.a \in {"nonzero", "timeout"} \/ conv.outA # "good"

\* C24: the re-encoding run of convert_to_mkv is made whenever the
\* stream-copy run exits non-zero, times out, or exits zero with a missing or
\* empty output; the conversion reports failure only after the re-encoding
\* run was made and failed too.
C24_ReencodeIsTheFallback ==
    conv.pc = "ret" =>
        /\ PhaseAFailed => conv.b # ""
        /\ ~conv.ok => conv.b # ""


-----------------------------------------------------------------------------
(* Claims about the names of staging files, checked under SpecNames. *)

\* the staging paths the operation of slot i has chosen so far
PathsOf(i) == { names[i][f] : f \in Artifacts } \ {NoPath}

\* C25: no two operations in flight at the same time write the same staging
\* path: the download, conversion, remux and thumbnail paths of any two of
\* them are pairwise distinct, also when both started in the same clock
\* second for files of the same name.
C25_StagingPathsDistinct ==
    \A i, j \in Slots : i # j => PathsOf(i) \cap PathsOf(j) = {}


-----------------------------------------------------------------------------
(* Claims about replies to prompts, checked under SpecReplies. *)

\* C26: a text reply whose replied-to message id is no key of
\* PENDING_AUDIO_ORDERS (an unknown, committed or cancelled prompt) is
\* ignored: no pending selection is created, changed or removed, no staged
\* file is deleted and no remux is started.
C26_StaleReplyIgnored ==
    [][ \A uid \in Users : \A text \in ShortReplies : \A r \in Slots :
            ( /\ r \notin DOMAIN PENDING_AUDIO_ORDERS
              /\ text_handler(uid, text, r) )
            => ( /\ PENDING_AUDIO_ORDERS' = PENDING_AUDIO_ORDERS
                 /\ files' = files
                 /\ op' = op ) ]_vars

\* a reply to prompt 1, whose selection was cancelled, was ignored while the
\* selection of prompt 2 is pending with its file
C26_Witness ==
    /\ 1 \in ignored
    /\ op[1].cancelled
    /\ 2 \in DOMAIN PENDING_AUDIO_ORDERS
    /\ PENDING_AUDIO_ORDERS[2].path \in files

\* C27: several pending selections of one owner coexist independently:
\* committing, rejecting or cancelling the selection of prompt p leaves every
\* selection with another prompt id, and its staged file, unchanged.
C27_OtherSelectionsUntouched ==
    [][ \A p \in DOMAIN PENDING_AUDIO_ORDERS : \A uid \in Users : \A text \in ShortReplies :
            ( \/ text_route(uid, p) = "order" /\ text_handler(uid, text, p)
              \/ CanPress(uid, p) /\ cancel_task_cb(uid, p) )
            => \A q \in DOMAIN PENDING_AUDIO_ORDERS \ {p} :
                   /\ q \in DOMAIN PENDING_AUDIO_ORDERS'
                   /\ PENDING_AUDIO_ORDERS'[q] = PENDING_AUDIO_ORDERS[q]
                   /\ PENDING_AUDIO_ORDERS[q].path \in files'
                   /\ op'[q] = op[q] ]_vars


-----------------------------------------------------------------------------
(* Claims about counters and the upload counter, checked under SpecCaption  *)
(* and SpecUpload.                                                          *)

\* one expansion for owner u seeds the counters that are not in the map,
\* which happens on the first expansion after a reset only, and adds 1 to
\* the others
SeedsOnce(u) ==
    LET cs  == USER_COUNTERS[u]
        dc  == cs.dynamic_counters
        dc2 == USER_COUNTERS'[u].dynamic_counters
    IN  \A key \in Matches(USER_CAPTIONS[u]) :
            /\ key \in DOMAIN dc2
            /\ IF key \in DOMAIN dc
               THEN cs.uploads > 0 /\ dc2[key].value = dc[key].value + 1
               ELSE cs.uploads = 0 /\ dc2[key].value = ParseDigits(key.d)

\* expansion k renders the counter at index i as its literal plus k - 1,
\* padded with zeros to the literal's width, in parentheses iff the literal
\* had them
RenderedFromLiteral(u, i) ==
    LET tpl == USER_CAPTIONS[u]
        k   == USER_COUNTERS[u].uploads
        out == last_caption[u]
    IN  /\ out[i].k = "num"
        /\ out[i].p = tpl[i].p
        /\ IsDigits(out[i].d)
        /\ ParseDigits(out[i].d) = ParseDigits(tpl[i].d) + (k - 1)
        /\ Len(out[i].d) >= Len(tpl[i].d)
        /\ (Len(out[i].d) > Len(tpl[i].d) => out[i].d[1] # "0")

\* C28: each distinct counter literal of a template is seeded exactly once,
\* on the first expansion after the template was set, from its own value and
\* is never seeded again; it is rendered zero-padded to its literal width
\* with parentheses kept iff present; any two counters of one template keep
\* the difference of their literals over all expansions.
C28_CountersSeededOnce ==
    /\ [][ \A u \in Users : expand_caption(u) => SeedsOnce(u) ]_vars
    /\ [](\A u \in Users : Expanded(u) =>
              LET tpl == USER_CAPTIONS[u]
                  out == last_caption[u]
              IN  /\ \A i \in CounterIdx(tpl) : RenderedFromLiteral(u, i)
                  /\ \A i, j \in CounterIdx(tpl) :
                         ParseDigits(out[i].d) - ParseDigits(out[j].d)
                             = ParseDigits(tpl[i].d) - ParseDigits(tpl[j].d))

\* the third expansion of "[01] [(09)]" is "03 (11)"
C28_Witness ==
    /\ USER_CAPTIONS[ADMIN_ID] = <<Ctr("none", <<"0", "1">>), Ctr("both", <<"0", "9">>)>>
    /\ USER_COUNTERS[ADMIN_ID].uploads = 3
    /\ last_caption[ADMIN_ID] = <<Num("none", <<"0", "3">>), Num("both", <<"1", "1">>)>>


\* the upload counter of owner u changes by an expansion call, which adds 1,
\* or by a reset of the caption state, and by nothing else
UploadsStep(u) ==
    LET a == USER_COUNTERS[u].uploads
        b == USER_COUNTERS'[u].uploads
    IN  b # a =>
            \/ b = a + 1 /\ \E i \in Slots : op[i].uid = u /\ cap_cycle(i)
            \/ b = 0 /\ (set_caption_prompt(u) \/ text_handler_set_caption(u, RetryTemplate))

\* the run of slot i has its caption, or has tried a delivery: it calls
\* process_dynamic_caption no more and its caption stays what it is
ExpandedOnce(i) ==
    (op[i].caption.has \/ op[i].attempts >= 1) =>
        /\ op'[i].pc \notin {"cap_cycle", "cap_counters", "cap_render"}
        /\ op'[i].pc # "done" => op'[i].caption = op[i].caption

\* a failed delivery attempt and the failure of the run leave the owner's
\* counters as the expansion left them
NotRolledBack(i) ==
    (pf_send(i, "failed") \/ pf_backoff(i) \/ pf_except(i)) =>
        USER_COUNTERS' = USER_COUNTERS

NoPlaceholder(tpl) == \A i \in 1..Len(tpl) : tpl[i].k = "lit"

\* out is the text t between an opening and a closing emphasis mark
WrappedAsBlock(out, t) ==
    /\ Len(out) = Len(t) + 2
    /\ out[1].k = "lit" /\ out[Len(out)].k = "lit"
    /\ SubSeq(out, 2, Len(out) - 1) = t

\* C30: for a template without any placeholder every expansion returns the
\* template text unchanged inside an emphasized block, and changes nothing of
\* the owner's state but the upload counter: the counter map stays empty and
\* the cycle offset stays 0.
C30_PlainTemplateWrapped ==
    \A u \in Users :
        (Expanded(u) /\ NoPlaceholder(USER_CAPTIONS[u])) =>
            /\ WrappedAsBlock(last_caption[u], USER_CAPTIONS[u])
            /\ USER_COUNTERS[u].dynamic_counters = <<>>
            /\ USER_COUNTERS[u].re_options_count = 0

-----------------------------------------------------------------------------
(* Claims about errors, modes and tokens, checked under SpecModes. *)

\* C31: no raw collaborator error crosses a component boundary: whatever call
\* fails in a pipeline operation, also the report of the error itself, no
\* exception leaves process_file_and_upload (nor the file handlers).
C31_NoErrorLeavesTheHandler ==
    raised = {}

\* C32: a media file that arrives while the owner's track-change mode is
\* active is taken by the track-selection negotiator, forwarded or not and
\* also when the caption-only mode is active as well: the operation that
\* starts for it is never a caption-only upload or a plain re-upload.
C32_TrackModeTakesTheFile ==
    [][ \A i \in Slots :
          (op[i].kind = "none" /\ op'[i].kind # "none"
               /\ op'[i].uid \in MKV_AUDIO_CHANGE_MODE) =>
              /\ op'[i].kind = "audio"
              /\ op'[i].pc = "audio_download" ]_vars

\* both modes are on, the first file went to the caption-only path before the
\* track-change mode was switched on, the second file is with the negotiator
C32_Witness ==
    /\ ADMIN_ID \in MKV_AUDIO_CHANGE_MODE
    /\ ADMIN_ID \in EDIT_CAPTION_MODE
    /\ op[1].kind = "caponly" /\ op[1].pc = "done"
    /\ op[2].kind = "audio" /\ op[2].pc = "audio_download"


\* an operation of u that has started and not returned; a file whose tracks
\* are listed waits for a reply, its handler has returned
InFlight(u) ==
    { i \in Slots : op[i].uid = u /\ op[i].kind # "none"
                    /\ op[i].pc \notin {"idle", "listed", "done"} }

\* C33: every cancel token an operation registers is unregistered when the
\* operation terminates, on every path: once all operations of an owner have
\* ended, the owner's token registry is empty.
C33_RegistryEmptyAtRest ==
    \A u \in Users : InFlight(u) = {} => TASKS[u] = <<>>

-----------------------------------------------------------------------------
(* Claims about callbacks and messages of any user, checked under SpecPress. *)

\* the staged input file of slot i is referenced by a pending selection
Referenced(i) ==
    \E p \in DOMAIN PENDING_AUDIO_ORDERS : PENDING_AUDIO_ORDERS[p].path = Path(i, "in")

\* the remux of slot i has started and its coroutine has not returned
BeingRemuxed(i) == op[i].kind = "remux" /\ op[i].pc # "done"

\* C34: a pending track selection leaves the store only together with its
\* staged input file being deleted or handed to a started remux: every staged
\* track-selection input file is referenced by a pending selection, is being
\* remuxed, or no longer exists, also after a Cancel press on the prompt by a
\* user who is not the owner of the selection.
C34_StagedFileIsAccountedFor ==
    \A i \in Slots :
        (op[i].kind \in {"audio", "remux"} /\ Path(i, "in") \in files) =>
            Referenced(i) \/ BeingRemuxed(i)


\* a handler runs for a message or callback of uid
StepOf(uid) ==
    \/ start_handler(uid) /\ UNCHANGED <<capVars, opVars, auxButModes>>
    \/ toggle_audio_change_mode(uid) /\ UNCHANGED <<capVars, auxVars>>
    \/ \E i \in Slots : audio_change_start(uid, i) /\ UNCHANGED <<capVars, auxVars>>
    \/ \E text \in ShortReplies, reply_to \in 0..MaxOps :
           text_handler(uid, text, reply_to) /\ UNCHANGED auxVars
    \/ \E mid \in 0..MaxOps : cancel_task_cb(uid, mid) /\ UNCHANGED <<capVars, auxVars>>

\* C35: no message or callback of a caller other than the allow-listed admin
\* changes a caption template, the counter state, a mode flag, a pending
\* track selection, a thumbnail setting or a cancel token; only the
\* subscriber set changes.
C35_NonAdminChangesSubscribersOnly ==
    [][ \A uid \in Users \ {ADMIN_ID} :
          StepOf(uid) =>
              UNCHANGED <<USER_CAPTIONS, USER_COUNTERS, SET_CAPTION_REQUEST,
                          MKV_AUDIO_CHANGE_MODE, EDIT_CAPTION_MODE, PENDING_AUDIO_ORDERS,
                          USER_THUMBS, USER_THUMB_TIME, SET_THUMB_REQUEST,
                          TASKS, events_set>> ]_vars

-----------------------------------------------------------------------------
(* Claims about the pending set-caption request, checked under SpecReplies. *)

\* C36: while a set-caption request of the owner is pending, the owner's next
\* text message is stored as the new template, clears the request and resets
\* the counter state, and is nothing else: when it is a reply to a pending
\* track-list prompt, the pending selection and its file stay as they are
\* and no remux starts.
C36_PendingRequestTakesTheText ==
    [][ \A uid \in Users, text \in ShortReplies, reply_to \in 0..MaxOps :
          (uid \in SET_CAPTION_REQUEST /\ text_handler(uid, text, reply_to)) =>
              /\ USER_CAPTIONS'[uid] = <<Lit("order")>>
              /\ uid \notin SET_CAPTION_REQUEST'
              /\ USER_COUNTERS'[uid] = FreshCounters
              /\ UNCHANGED <<PENDING_AUDIO_ORDERS, op, files, TASKS>> ]_vars

\* the owner's text was stored as the caption while the selection under
\* prompt 1 was pending, and the selection is still pending
C36_Witness ==
    /\ USER_CAPTIONS[ADMIN_ID] = <<Lit("order")>>
    /\ ADMIN_ID \notin SET_CAPTION_REQUEST
    /\ 1 \in DOMAIN PENDING_AUDIO_ORDERS
    /\ op[1].pc = "listed"
    /\ Path(1, "in") \in files

\* C37: whenever an owner has an entry in USER_THUMBS, the thumbnail file the
\* entry names exists in the staging directory; the sweep does not take it
\* while the entry remains.
C37_ConfiguredThumbnailExists ==
    \A u \in USER_THUMBS : thumb_jpg[u].exists

\* the rank of a record's state in the dialogue
PostRank(r) == CHOOSE k \in 1..Len(PostStates) : PostStates[k] = r.state

\* C38: an owner is in Create Post mode exactly when a post-creation record
\* exists for them, and a record that stays in the store keeps its state or
\* moves to the next state of the dialogue, never further and never back.
C38_ModeAndRecordAdvanceTogether ==
    /\ [](\A u \in Users : u \in CREATE_POST_MODE <=> u \in DOMAIN POST_CREATION_STATE)
    /\ [][ \A u \in DOMAIN POST_CREATION_STATE \cap DOMAIN POST_CREATION_STATE' :
               POST_CREATION_STATE'[u].serial = POST_CREATION_STATE[u].serial =>
                   PostRank(POST_CREATION_STATE'[u]) \in
                       { PostRank(POST_CREATION_STATE[u]),
                         PostRank(POST_CREATION_STATE[u]) + 1 } ]_vars

\* C40: after del_thumb_cmd the owner has neither a thumbnail entry nor a
\* thumbnail time, and the reply says "deleted" exactly when one of the two
\* existed before the call.
C40_DelThumbClearsBothSettings ==
    [][ \A uid \in Users :
          (del_thumb_cmd(uid) /\ UNCHANGED <<capVars, opVars, postVars, auxButPhoto>>) =>
              /\ uid \notin USER_THUMBS'
              /\ uid \notin USER_THUMB_TIME'
              /\ (said' = "deleted") <=> (uid \in USER_THUMBS \/ uid \in USER_THUMB_TIME) ]_vars


\* C39: when download_stream has returned, with success or with the
\* size-limit error, the bytes written to the output file are at most
\* MAX_SIZE.
C39_WrittenBytesWithinMaxSize ==
    dl.pc = "returned" /\ dl.res \in {"ok", "too_big"} => dl.total <= MAX_SIZE

====
